---- MODULE Spec2Model ----
(***************************************************************************)
(* Hierarchical storage core of cmed-server: the folder tree and the file  *)
(* rows kept in MySQL (config/database.ts), the blobs kept on disk         *)
(* (services/fileStorage.ts), the Redis cache (config/redis.ts) and the    *)
(* folder and file controllers that tie them together.                     *)
(*                                                                         *)
(* The controllers are modelled in several specifications.  In Spec the    *)
(* folder handlers run one at a time, each one atomic action, with store   *)
(* faults.  SpecFiles adds the file handlers and the blob store.           *)
(* SpecBlobs runs uploads, downloads and deletions of files of two owners  *)
(* with store and disk faults.  SpecCache adds the cache-backed reads;     *)
(* SpecOwners runs them for two owners over the one cache.  SpecScoped     *)
(* lets two owners call every handler that takes an id.  SpecNames feeds   *)
(* createFolder and renameFolder the names a caller can send.  SpecBatch  *)
(* runs uploadMultipleFiles, SpecOutage the handlers with Redis            *)
(* unreachable, SpecTree two owners changing folders and reading their     *)
(* trees.  In SpecConc the folder handlers are split at their awaited SQL  *)
(* statements and run interleaved on separate InnoDB transactions; in      *)
(* SpecDisk saveFile and the storage deleteFile interleave at their        *)
(* awaited file system calls.  SpecRefs interleaves the folder handlers    *)
(* with uploadFile over file rows.  SpecPool follows the requests through  *)
(* the connection pool: getConnection, the try block with the handlers it  *)
(* calls, and the release in finally.                                      *)
(***************************************************************************)
EXTENDS Integers, Sequences, FiniteSets, TLC

\* ------------------------------------------------------------------------
\* Bounds of the model
\* ------------------------------------------------------------------------
MaxFolderId == 3
MaxFileId == 2
MaxBlobId == 2
MaxSteps == 4
MaxCalls == 6
MaxBatch == 3
MaxTxns == 4
MaxConns == 2
MaxReqs == 3
MaxNested == 2
ConnectionLimit == 2

\* SQL NULL / JavaScript null for an id column or argument.  AUTO_INCREMENT
\* ids start at 1, and the handlers test ids by truthiness, so 0 and null
\* take the same branches.
Null == 0

\* Rows of the users table the owners are drawn from.
Users == {1, 2}

\* Folder names and file names, in collation order.
NameSeq == <<"a", "b">>
Names == {NameSeq[i] : i \in 1..Len(NameSeq)}
FileNames == {"a"}

FolderIds == 1..MaxFolderId
FileIds == 1..MaxFileId

\* Pooled connections in use at one time.
Conns == 1..MaxConns

VARIABLES
    folders,        \* committed rows of table folders
    files,          \* committed rows of table files
    nextFolderId,   \* AUTO_INCREMENT counter of folders
    nextFileId,     \* AUTO_INCREMENT counter of files
    blobs,          \* paths of the blobs present under UPLOAD_DIR
    nextBlobId,     \* the next randomUUID(), modelled as a fresh number
    cache,          \* Redis: a function from the present keys to their values
    last,           \* the call that returned last, with its result (not SpecConc)
    budget,         \* the steps still allowed, where a run is bounded
    txns,           \* SpecConc: the transaction in flight on each connection
    reports,        \* SpecConc: results returned by finished transactions
    disk,           \* SpecDisk: the tree under UPLOAD_DIR, storage calls in flight
    pool            \* SpecPool: connections checked out, call stack of each request

vars == <<folders, files, nextFolderId, nextFileId, blobs, nextBlobId,
          cache, last, budget, txns, reports, disk, pool>>

storeVars == <<folders, files, nextFolderId, nextFileId>>

\* ------------------------------------------------------------------------
\* Error strings returned by the controllers
\* ------------------------------------------------------------------------
ErrNone == ""
ErrParentNotFound == "Parent folder not found"
ErrFolderExists == "Folder already exists"
ErrCreateFailed == "Failed to create folder"
ErrFolderNotFound == "Folder not found"
ErrDeleteFolderFailed == "Failed to delete folder"
ErrRenameExists == "A folder with this name already exists"
ErrRenameFailed == "Failed to rename folder"
ErrMoveSelf == "Cannot move a folder to itself"
ErrNewParentNotFound == "New parent folder not found"
ErrMoveSubfolder == "Cannot move a folder to its own subfolder"
ErrMoveExists == "A folder with this name already exists in the destination"
ErrMoveFailed == "Failed to move folder"
ErrUploadFailed == "Failed to upload file"
ErrFileNotFound == "File not found"
ErrDeleteFileFailed == "Failed to delete file"

\* ------------------------------------------------------------------------
\* Table folders and table files
\* ------------------------------------------------------------------------
FolderRow(id, userId, parentId, name) ==
    [folder_id |-> id, user_id |-> userId, parent_folder_id |-> parentId,
     name |-> name]

\* The uploads differ in their bytes; file.type and file.size, as the
\* caller declares them, go with the bytes.
FileType(data) == IF data = "d" THEN "text/plain" ELSE "image/png"
FileSize(data) == IF data = "d" THEN 1 ELSE 2

FileRow(id, userId, folderId, name, path, data) ==
    [file_id |-> id, user_id |-> userId, folder_id |-> folderId,
     name |-> name, file_path |-> path, mime_type |-> FileType(data),
     size |-> FileSize(data)]

\* UNIQUE KEY unique_folder (user_id, parent_folder_id, name).  A MySQL
\* unique index admits any number of rows whose key holds a NULL, so the
\* key binds only rows with a parent.
DupFolderKey(fs, row) ==
    /\ row.parent_folder_id # Null
    /\ \E f \in fs : /\ f.folder_id # row.folder_id
                     /\ f.user_id = row.user_id
                     /\ f.parent_folder_id = row.parent_folder_id
                     /\ f.name = row.name

DupFileKeyAnyUser(fl, row) ==
    /\ row.folder_id # Null
    /\ \E f \in fl : /\ f.file_id # row.file_id
                     /\ f.folder_id = row.folder_id
                     /\ f.name = row.name

\* UNIQUE KEY unique_file (folder_id, name, user_id), NULL folder_id exempt.
DupFileKey(fl, row) ==
    /\ row.folder_id # Null
    /\ \E f \in fl : /\ f.file_id # row.file_id
                     /\ f.user_id = row.user_id
                     /\ f.folder_id = row.folder_id
                     /\ f.name = row.name

FolderFkOkAlways(fs, parentId) == TRUE

\* FOREIGN KEY (parent_folder_id) REFERENCES folders(folder_id): the
\* parent named by a row must exist (NULL names no parent).
FolderFkOk(fs, parentId) ==
    parentId = Null \/ \E p \in fs : p.folder_id = parentId

\* Ids of the rows a cascading delete of the rows `ids` removes: the rows
\* themselves and, through ON DELETE CASCADE on parent_folder_id, every row
\* whose chain of parents reaches one of them.
RECURSIVE CascadeClosure(_, _)
CascadeClosure(fs, ids) ==
    LET more == {f.folder_id : f \in {g \in fs : g.parent_folder_id \in ids}}
    IN IF more \subseteq ids THEN ids ELSE CascadeClosure(fs, ids \cup more)

\* DELETE FROM folders WHERE folder_id IN ids, on the folders table.
FoldersAfterDelete(fs, ids) ==
    {f \in fs : f.folder_id \notin CascadeClosure(fs, ids)}

\* ... and its effect on the files table, through ON DELETE CASCADE on
\* files.folder_id.
FilesAfterFolderDeleteNoCascade(fs, fl, ids) ==
    fl

FilesAfterFolderDelete(fs, fl, ids) ==
    {f \in fl : f.folder_id \notin CascadeClosure(fs, ids)}

\* ------------------------------------------------------------------------
\* Ordering helpers
\* ------------------------------------------------------------------------
Min(S) == CHOOSE x \in S : \A y \in S : x <= y

RECURSIVE SortedIds(_)
SortedIds(S) ==
    IF S = {} THEN <<>>
    ELSE LET m == Min(S) IN <<m>> \o SortedIds(S \ {m})

NameRank(n) == CHOOSE i \in 1..Len(NameSeq) : NameSeq[i] = n

\* ------------------------------------------------------------------------
\* Cache layer (config/redis.ts).  A key is <<kind, n>>: the key string
\* with its number n taken out, e.g. <<"folder:contents", 7>> for
\* `folder:7:contents` and <<"user:root:files", 1>> for `user:1:root:files`.
\* ------------------------------------------------------------------------
Key(kind, n) == <<kind, n>>

CacheHas(c, k) == k \in DOMAIN c

\* cacheMiddleware.set: SETEX key 3600 value
CacheSet(c, k, v) ==
    [x \in (DOMAIN c) \cup {k} |-> IF x = k THEN v ELSE c[x]]

CacheDeleteSameId(c, k) ==
    [x \in {y \in DOMAIN c : y[2] # k[2]} |-> c[x]]

\* cacheMiddleware.delete: DEL key
CacheDelete(c, k) ==
    [x \in (DOMAIN c) \ {k} |-> c[x]]

RECURSIVE CacheDeleteAll(_, _)
CacheDeleteAll(c, ks) ==
    IF ks = <<>> THEN c ELSE CacheDeleteAll(CacheDelete(c, Head(ks)), Tail(ks))

\* The key kinds whose string starts with the text before the * of a
\* pattern of the given kind.
KindHasPrefix(kind, patKind) ==
    /\ patKind = "user:folder_tree"
    /\ kind = "user:folder_tree"

CacheDeleteByPatternAnyOwner(c, patKind, n) ==
    LET keys == {k \in DOMAIN c : KindHasPrefix(k[1], patKind)}
    IN [x \in (DOMAIN c) \ keys |-> c[x]]

\* cacheMiddleware.deleteByPattern(`user:${n}:folder_tree*`): KEYS, then DEL
CacheDeleteByPattern(c, patKind, n) ==
    LET keys == {k \in DOMAIN c : KindHasPrefix(k[1], patKind) /\ k[2] = n}
    IN [x \in (DOMAIN c) \ keys |-> c[x]]

EmptyCache == [x \in {} |-> {}]

\* cacheMiddleware.delete as its caller sees it: the cache afterwards and
\* the returned flag; with Redis unreachable the catch returns false.
CacheDeleteCall(c, k, up) ==
    IF up THEN [cache |-> CacheDelete(c, k), ok |-> TRUE]
    ELSE [cache |-> c, ok |-> FALSE]

\* cacheMiddleware.deleteByPattern as its caller sees it: DEL is only sent
\* when KEYS returned something.
CacheDeleteByPatternCall(c, patKind, n, up) ==
    IF up THEN [cache |-> CacheDeleteByPattern(c, patKind, n), ok |-> TRUE]
    ELSE [cache |-> c, ok |-> FALSE]

\* ------------------------------------------------------------------------
\* Blob store (services/fileStorage.ts).  A blob is [path, data]; a path
\* is the path relative to UPLOAD_DIR, <<userId, blobId>> standing for
\* /user_<userId>/<blobId[0..2]>/<blobId[3..5]>/<blobId><ext>.
\* ------------------------------------------------------------------------
BlobPathOfUser(userId, blobId) == <<userId, 0>>

BlobPath(userId, blobId) == <<userId, blobId>>

SaveFileLost(bl, userId, blobId, data) == bl

\* saveFile: mkdir -p, writeFile, return the relative path
SaveFile(bl, userId, blobId, data) ==
    {b \in bl : b.path # BlobPath(userId, blobId)}
        \cup {[path |-> BlobPath(userId, blobId), data |-> data]}

BlobExists(bl, path) == \E b \in bl : b.path = path

\* deleteFile(filePath): unlink throws when the blob is missing or the disk
\* refuses (diskOk = FALSE); the error is caught and false is returned.
StorageDeleteForced(bl, path, diskOk) ==
    [blobs |-> {b \in bl : b.path # path}, ok |-> TRUE]

StorageDelete(bl, path, diskOk) ==
    IF diskOk /\ BlobExists(bl, path)
    THEN [blobs |-> {b \in bl : b.path # path}, ok |-> TRUE]
    ELSE [blobs |-> bl, ok |-> FALSE]

\* ------------------------------------------------------------------------
\* The result a handler returns
\* ------------------------------------------------------------------------
\* folderRows and fileRows record how many rows of each table the call's
\* own transaction removed when it committed.
Ok(op) ==
    [op |-> op, success |-> TRUE, error |-> ErrNone,
     folderRows |-> 0, fileRows |-> 0]
Fail(op, error) ==
    [op |-> op, success |-> FALSE, error |-> error,
     folderRows |-> 0, fileRows |-> 0]

\* The state a handler starts from, and hands on with its result `res`.
\* `returns` is FALSE when the handler never returns (a traversal that
\* runs for ever).
State ==
    [folders |-> folders, files |-> files, nextFolderId |-> nextFolderId,
     nextFileId |-> nextFileId, blobs |-> blobs, nextBlobId |-> nextBlobId,
     cache |-> cache, res |-> Ok("init"), returns |-> TRUE]

\* ------------------------------------------------------------------------
\* Subtree traversals of the folder controller
\* ------------------------------------------------------------------------
\* SELECT folder_id FROM folders WHERE parent_folder_id = ?
ChildIds(fs, parentId) ==
    {f.folder_id : f \in {g \in fs : g.parent_folder_id = parentId}}

\* moveFolder's isDescendant(checkId, targetId): a depth-first descent from
\* checkId along parent -> children.  "true" or "false" as the code returns
\* them; "diverges" when the descent is deeper than there are rows, which
\* happens only on a cycle, where the code recurses without end.
IsDescendantDirectOnly(fs, checkId, targetId, fuel) ==
    IF checkId = targetId \/ targetId \in ChildIds(fs, checkId)
    THEN "true" ELSE "false"

RECURSIVE IsDescendant(_, _, _, _)
IsDescendant(fs, checkId, targetId, fuel) ==
    IF checkId = targetId THEN "true"
    ELSE IF fuel = 0 THEN "diverges"
    ELSE LET childFolders == SortedIds(ChildIds(fs, checkId))
             RECURSIVE Scan(_)
             Scan(i) ==
                 IF i > Len(childFolders) THEN "false"
                 ELSE LET r == IsDescendant(fs, childFolders[i], targetId,
                                            fuel - 1)
                      IN IF r = "false" THEN Scan(i + 1) ELSE r
         IN Scan(1)

\* deleteFolder's local getSubfolders(parentId): the ids of all descendants
\* in preorder; diverges on a cycle.
RECURSIVE GetSubfolderIds(_, _, _)
GetSubfolderIds(fs, parentId, fuel) ==
    IF fuel = 0 THEN [ids |-> <<>>, diverges |-> TRUE]
    ELSE LET subfolders == SortedIds(ChildIds(fs, parentId))
             RECURSIVE Walk(_)
             Walk(i) ==
                 IF i > Len(subfolders)
                 THEN [ids |-> <<>>, diverges |-> FALSE]
                 ELSE LET childIds == GetSubfolderIds(fs, subfolders[i],
                                                    fuel - 1)
                          rest == Walk(i + 1)
                      IN [ids |-> <<subfolders[i]>> \o childIds.ids
                                      \o rest.ids,
                          diverges |-> childIds.diverges \/ rest.diverges]
         IN Walk(1)

SeqToSet(q) == {q[i] : i \in 1..Len(q)}

\* ------------------------------------------------------------------------
\* Folder controller, one call run alone.  `fault` names the awaited store
\* call that throws, if any: "begin" (beginTransaction), "write" (the
\* INSERT / UPDATE / DELETE), "commit", "reread" (the SELECT after commit).
\* ------------------------------------------------------------------------
\* The keys createFolder clears.
CreateFolderKeys(userId, parentFolderId) ==
    (IF parentFolderId # Null
     THEN <<Key("folder:subfolders", parentFolderId),
            Key("folder:contents", parentFolderId)>>
     ELSE <<>>)
    \o <<Key("user:folders", userId)>>

\* SELECT * FROM folders WHERE folder_id = ? AND user_id = ?
FolderOfAnyUser(fs, folderId, userId) ==
    {f \in fs : f.folder_id = folderId}

FolderOfUser(fs, folderId, userId) ==
    {f \in fs : f.folder_id = folderId /\ f.user_id = userId}

\* createFolder: "Check if folder already exists at this level"
CreateExistingEqualsNull(fs, userId, name, parentFolderId) ==
    {f \in fs : /\ f.user_id = userId
                /\ f.name = name
                /\ parentFolderId # Null
                /\ f.parent_folder_id = parentFolderId}

CreateExisting(fs, userId, name, parentFolderId) ==
    {f \in fs : /\ f.user_id = userId
                /\ f.name = name
                /\ f.parent_folder_id = parentFolderId}

CreateFolder(st, userId, name, parentFolderId, fault) ==
    LET op == "createFolder"
        parentFolders == FolderOfUser(st.folders, parentFolderId, userId)
        existingFolders ==
            CreateExisting(st.folders, userId, name, parentFolderId)
        row == FolderRow(st.nextFolderId, userId, parentFolderId, name)
        cleared == CacheDeleteByPattern(
                       CacheDeleteAll(st.cache,
                                      CreateFolderKeys(userId, parentFolderId)),
                       "user:folder_tree", userId)
    IN
    IF fault = "begin" THEN [st EXCEPT !.res = Fail(op, ErrCreateFailed)]
    ELSE IF parentFolderId # Null /\ parentFolders = {}
    THEN [st EXCEPT !.res = Fail(op, ErrParentNotFound)]
    ELSE IF existingFolders # {}
    THEN [st EXCEPT !.res = Fail(op, ErrFolderExists)]
    ELSE IF fault = "write"
    THEN [st EXCEPT !.res = Fail(op, ErrCreateFailed)]
    ELSE IF DupFolderKey(st.folders, row)
            \/ ~FolderFkOk(st.folders, parentFolderId)
    THEN [st EXCEPT !.nextFolderId = st.nextFolderId + 1,
                    !.res = Fail(op, ErrCreateFailed)]
    ELSE IF fault = "commit"
    THEN [st EXCEPT !.nextFolderId = st.nextFolderId + 1,
                    !.cache = cleared,
                    !.res = Fail(op, ErrCreateFailed)]
    ELSE IF fault = "reread"
    THEN [st EXCEPT !.folders = st.folders \cup {row},
                    !.nextFolderId = st.nextFolderId + 1,
                    !.cache = cleared,
                    !.res = Fail(op, ErrCreateFailed)]
    ELSE [st EXCEPT !.folders = st.folders \cup {row},
                    !.nextFolderId = st.nextFolderId + 1,
                    !.cache = cleared,
                    !.res = Ok(op)]

\* The keys renameFolder clears.
RenameFolderKeys(userId, folderId, parentId) ==
    <<Key("folder", folderId)>>
    \o (IF parentId # Null
        THEN <<Key("folder:subfolders", parentId),
               Key("folder:contents", parentId)>>
        ELSE <<>>)
    \o <<Key("user:folders", userId)>>

SetName(fs, folderId, newName) ==
    {IF f.folder_id = folderId THEN [f EXCEPT !.name = newName] ELSE f
        : f \in fs}

\* renameFolder: "Check if a folder with the new name already exists at
\* this level"
RenameExistingEqualsNull(fs, userId, newName, folderId, parentId) ==
    {f \in fs : /\ f.user_id = userId
                /\ f.name = newName
                /\ f.folder_id # folderId
                /\ parentId # Null
                /\ f.parent_folder_id = parentId}

RenameExisting(fs, userId, newName, folderId, parentId) ==
    {f \in fs : /\ f.user_id = userId
                /\ f.name = newName
                /\ f.folder_id # folderId
                /\ f.parent_folder_id = parentId}

RenameFolder(st, userId, folderId, newName, fault) ==
    LET op == "renameFolder"
        found == FolderOfUser(st.folders, folderId, userId)
        folder == CHOOSE f \in found : TRUE
        existingFolders ==
            RenameExisting(st.folders, userId, newName, folderId,
                           folder.parent_folder_id)
        cleared == CacheDeleteByPattern(
                       CacheDeleteAll(st.cache,
                           RenameFolderKeys(userId, folderId,
                                            folder.parent_folder_id)),
                       "user:folder_tree", userId)
    IN
    IF fault = "begin" THEN [st EXCEPT !.res = Fail(op, ErrRenameFailed)]
    ELSE IF found = {}
    THEN [st EXCEPT !.res = Fail(op, ErrFolderNotFound)]
    ELSE IF existingFolders # {}
    THEN [st EXCEPT !.res = Fail(op, ErrRenameExists)]
    ELSE IF fault = "write"
            \/ DupFolderKey(st.folders, [folder EXCEPT !.name = newName])
    THEN [st EXCEPT !.res = Fail(op, ErrRenameFailed)]
    ELSE IF fault = "commit"
    THEN [st EXCEPT !.cache = cleared, !.res = Fail(op, ErrRenameFailed)]
    ELSE [st EXCEPT !.folders = SetName(st.folders, folderId, newName),
                    !.cache = cleared,
                    !.res = Ok(op)]

\* The keys moveFolder clears.
MoveFolderKeys(userId, folderId, oldParentId, newParentId) ==
    <<Key("folder", folderId)>>
    \o (IF oldParentId # Null
        THEN <<Key("folder:subfolders", oldParentId),
               Key("folder:contents", oldParentId)>>
        ELSE <<>>)
    \o (IF newParentId # Null
        THEN <<Key("folder:subfolders", newParentId),
               Key("folder:contents", newParentId)>>
        ELSE <<>>)
    \o <<Key("user:folders", userId)>>

SetParentWithChildren(fs, folderId, newParentId) ==
    {IF f.folder_id = folderId \/ f.parent_folder_id = folderId
     THEN [f EXCEPT !.parent_folder_id = newParentId] ELSE f : f \in fs}

SetParent(fs, folderId, newParentId) ==
    {IF f.folder_id = folderId
     THEN [f EXCEPT !.parent_folder_id = newParentId] ELSE f : f \in fs}

MoveExistingNone(fs, userId, name, newParentId) == {}

\* moveFolder: "Check if a folder with the same name already exists in the
\* new parent", or in the root when there is no new parent
MoveExisting(fs, userId, name, newParentId) ==
    IF newParentId # Null
    THEN {f \in fs : /\ f.user_id = userId
                     /\ f.name = name
                     /\ f.parent_folder_id = newParentId}
    ELSE {f \in fs : /\ f.user_id = userId
                     /\ f.name = name
                     /\ f.parent_folder_id = Null}

MoveFolder(st, userId, folderId, newParentId, fault) ==
    LET op == "moveFolder"
        found == FolderOfUser(st.folders, folderId, userId)
        folder == CHOOSE f \in found : TRUE
        newParentFolders == FolderOfUser(st.folders, newParentId, userId)
        desc == IsDescendant(st.folders, folderId, newParentId,
                             Cardinality(st.folders))
        existingFolders ==
            MoveExisting(st.folders, userId, folder.name, newParentId)
        cleared == CacheDeleteByPattern(
                       CacheDeleteAll(st.cache,
                           MoveFolderKeys(userId, folderId,
                                          folder.parent_folder_id,
                                          newParentId)),
                       "user:folder_tree", userId)
    IN
    IF fault = "begin" THEN [st EXCEPT !.res = Fail(op, ErrMoveFailed)]
    ELSE IF found = {}
    THEN [st EXCEPT !.res = Fail(op, ErrFolderNotFound)]
    ELSE IF folderId = newParentId
    THEN [st EXCEPT !.res = Fail(op, ErrMoveSelf)]
    ELSE IF newParentId # Null /\ newParentFolders = {}
    THEN [st EXCEPT !.res = Fail(op, ErrNewParentNotFound)]
    ELSE IF newParentId # Null /\ desc = "diverges"
    THEN [st EXCEPT !.returns = FALSE]
    ELSE IF newParentId # Null /\ desc = "true"
    THEN [st EXCEPT !.res = Fail(op, ErrMoveSubfolder)]
    ELSE IF existingFolders # {}
    THEN [st EXCEPT !.res = Fail(op, ErrMoveExists)]
    ELSE IF \/ fault = "write"
            \/ DupFolderKey(st.folders,
                            [folder EXCEPT !.parent_folder_id = newParentId])
            \/ ~FolderFkOk(st.folders, newParentId)
    THEN [st EXCEPT !.res = Fail(op, ErrMoveFailed)]
    ELSE IF fault = "commit"
    THEN [st EXCEPT !.cache = cleared, !.res = Fail(op, ErrMoveFailed)]
    ELSE [st EXCEPT !.folders = SetParent(st.folders, folderId, newParentId),
                    !.cache = cleared,
                    !.res = Ok(op)]

\* ------------------------------------------------------------------------
\* File controller, one call run alone.  `diskOk` is FALSE when the blob
\* store call of the handler fails (writeFile or unlink throws).
\* ------------------------------------------------------------------------
\* The keys uploadFile clears.
UploadFileKeys(userId, folderId) ==
    (IF folderId # Null THEN <<Key("folder:contents", folderId)>> ELSE <<>>)
    \o <<Key("user:folders", userId)>>

\* ---------------------------------------------------------------------
\* Upload failures after the blob was saved

FileFkOkAlways(fs, folderId) == TRUE

\* FOREIGN KEY (folder_id) REFERENCES folders(folder_id)
FileFkOk(fs, folderId) ==
    folderId = Null \/ \E p \in fs : p.folder_id = folderId

UploadFile(st, userId, name, folderId, data, fault, diskOk) ==
    LET op == "uploadFile"
        filePath == BlobPath(userId, st.nextBlobId)
        saved == SaveFile(st.blobs, userId, st.nextBlobId, data)
        row == FileRow(st.nextFileId, userId, folderId, name, filePath,
                      data)
        cleared == CacheDeleteAll(st.cache, UploadFileKeys(userId, folderId))
    IN
    IF fault = "begin" \/ ~diskOk
    THEN [st EXCEPT !.res = Fail(op, ErrUploadFailed)]
    ELSE IF fault = "write"
    THEN [st EXCEPT !.blobs = saved,
                    !.nextBlobId = st.nextBlobId + 1,
                    !.res = Fail(op, ErrUploadFailed)]
    ELSE IF DupFileKey(st.files, row) \/ ~FileFkOk(st.folders, folderId)
    THEN [st EXCEPT !.blobs = saved,
                    !.nextBlobId = st.nextBlobId + 1,
                    !.nextFileId = st.nextFileId + 1,
                    !.res = Fail(op, ErrUploadFailed)]
    ELSE IF fault = "commit"
    THEN [st EXCEPT !.blobs = saved,
                    !.nextBlobId = st.nextBlobId + 1,
                    !.nextFileId = st.nextFileId + 1,
                    !.cache = cleared,
                    !.res = Fail(op, ErrUploadFailed)]
    ELSE [st EXCEPT !.files = st.files \cup {row},
                    !.blobs = saved,
                    !.nextBlobId = st.nextBlobId + 1,
                    !.nextFileId = st.nextFileId + 1,
                    !.cache = cleared,
                    !.res = IF fault = "reread"
                            THEN Fail(op, ErrUploadFailed) ELSE Ok(op)]

\* The keys deleteFile clears.
DeleteFileKeys(userId, fileId, folderId) ==
    <<Key("file", fileId)>>
    \o (IF folderId # Null THEN <<Key("folder:contents", folderId)>> ELSE <<>>)
    \o <<Key("user:folders", userId)>>

DeleteFile(st, userId, fileId, fault, diskOk) ==
    LET op == "deleteFile"
        found == {f \in st.files : f.file_id = fileId /\ f.user_id = userId}
        file == CHOOSE f \in found : TRUE
        unlinked == StorageDelete(st.blobs, file.file_path, diskOk).blobs
        cleared == CacheDeleteAll(st.cache,
                       DeleteFileKeys(userId, fileId, file.folder_id))
    IN
    IF fault = "begin" THEN [st EXCEPT !.res = Fail(op, ErrDeleteFileFailed)]
    ELSE IF found = {}
    THEN [st EXCEPT !.res = Fail(op, ErrFileNotFound)]
    ELSE IF fault = "write"
    THEN [st EXCEPT !.blobs = unlinked,
                    !.res = Fail(op, ErrDeleteFileFailed)]
    ELSE IF fault = "commit"
    THEN [st EXCEPT !.blobs = unlinked,
                    !.cache = cleared,
                    !.res = Fail(op, ErrDeleteFileFailed)]
    ELSE [st EXCEPT !.files = {f \in st.files : f.file_id # fileId},
                    !.blobs = unlinked,
                    !.cache = cleared,
                    !.res = Ok(op)]

\* uploadMultipleFiles: one element of `files` is a file to upload, with
\* what goes wrong in its own uploadFile call (fault, diskOk).
UploadedFile(name, data, fault, diskOk) ==
    [name |-> name, data |-> data, fault |-> fault, diskOk |-> diskOk]

\* uploadFile's result.file: the row read back by its insert id
ResultFile(fl, insertId) ==
    LET row == CHOOSE f \in fl : f.file_id = insertId
    IN [id |-> row.file_id, name |-> row.name, size |-> row.size,
        mime_type |-> row.mime_type]

RECURSIVE UploadLoopAborts(_, _, _, _, _, _)
UploadLoopAborts(st, userId, fileList, folderId, uploadedFiles, failedFiles) ==
    IF fileList = <<>>
    THEN [st |-> [st EXCEPT !.res = Ok("uploadMultipleFiles")],
          uploadedFiles |-> uploadedFiles, failedFiles |-> failedFiles]
    ELSE LET file == Head(fileList)
             result == UploadFile(st, userId, file.name, folderId, file.data,
                                  file.fault, file.diskOk)
         IN IF result.res.success
            THEN UploadLoopAborts(result, userId, Tail(fileList), folderId,
                     Append(uploadedFiles,
                            ResultFile(result.files, st.nextFileId)),
                     failedFiles)
            ELSE [st |-> [result EXCEPT !.res = Ok("uploadMultipleFiles")],
                  uploadedFiles |-> uploadedFiles,
                  failedFiles |-> Append(failedFiles,
                                         [name |-> file.name,
                                          error |-> result.res.error])]

RECURSIVE UploadLoop(_, _, _, _, _, _)
\* for (const file of files) { uploadFile; push to one of the two lists }
UploadLoop(st, userId, fileList, folderId, uploadedFiles, failedFiles) ==
    IF fileList = <<>>
    THEN [st |-> [st EXCEPT !.res = Ok("uploadMultipleFiles")],
          uploadedFiles |-> uploadedFiles, failedFiles |-> failedFiles]
    ELSE LET file == Head(fileList)
             result == UploadFile(st, userId, file.name, folderId, file.data,
                                  file.fault, file.diskOk)
         IN IF result.res.success
            THEN UploadLoop(result, userId, Tail(fileList), folderId,
                     Append(uploadedFiles,
                            ResultFile(result.files, st.nextFileId)),
                     failedFiles)
            ELSE UploadLoop(result, userId, Tail(fileList), folderId,
                     uploadedFiles,
                     Append(failedFiles, [name |-> file.name,
                                          error |-> result.res.error]))

UploadMultipleFiles(st, userId, fileList, folderId) ==
    UploadLoop(st, userId, fileList, folderId, <<>>, <<>>)

\* getFile(filePath): readFile of the blob; it throws when there is none.
GetFile(bl, path) == (CHOOSE b \in bl : b.path = path).data

\* What downloadFile returns; it changes nothing.
DownloadResult(success, error, data, name, type, size) ==
    [success |-> success, error |-> error, data |-> data, name |-> name,
     mime_type |-> type, size |-> size]

ErrDownloadFailed == "Failed to download file"

DownloadFile(fl, bl, userId, fileId) ==
    LET found == {f \in fl : f.file_id = fileId /\ f.user_id = userId}
        file == CHOOSE f \in found : TRUE
    IN IF found = {}
       THEN DownloadResult(FALSE, ErrFileNotFound, "", "", "", 0)
       ELSE IF ~BlobExists(bl, file.file_path)
       THEN DownloadResult(FALSE, ErrDownloadFailed, "", "", "", 0)
       ELSE DownloadResult(TRUE, ErrNone, GetFile(bl, file.file_path),
                           file.name, file.mime_type, file.size)

\* ------------------------------------------------------------------------
\* deleteFolder.  Its faults: "begin", "delete_subfolders" (the DELETE ...
\* IN (subfolderIds)), "delete_folder" (the DELETE of the row), "commit".
\* ------------------------------------------------------------------------
\* for (const file of files) await fileController.deleteFile(userId, id):
\* each call runs and commits on a connection of its own.
RECURSIVE DeleteFilesLoop(_, _, _, _)
DeleteFilesLoop(st, userId, fileIds, diskOk) ==
    IF fileIds = <<>> THEN st
    ELSE DeleteFilesLoop(DeleteFile(st, userId, Head(fileIds), "none", diskOk),
                         userId, Tail(fileIds), diskOk)

\* The keys deleteFolder clears.
DeleteFolderKeys(userId, folderId, parentId) ==
    <<Key("folder", folderId), Key("folder:contents", folderId),
      Key("folder:subfolders", folderId)>>
    \o (IF parentId # Null
        THEN <<Key("folder:subfolders", parentId),
               Key("folder:contents", parentId)>>
        ELSE <<>>)
    \o <<Key("user:folders", userId)>>

DeleteFolder(st, userId, folderId, fault, diskOk) ==
    LET op == "deleteFolder"
        found == FolderOfUser(st.folders, folderId, userId)
        folder == CHOOSE f \in found : TRUE
        fileIds == SortedIds({f.file_id :
                                f \in {g \in st.files : g.folder_id = folderId}})
        st1 == [DeleteFilesLoop(st, userId, fileIds, diskOk)
                    EXCEPT !.res = st.res]
        sub == GetSubfolderIds(st.folders, folderId, Cardinality(st.folders))
        subfolderIds == SeqToSet(sub.ids)
        folders1 == IF sub.ids # <<>>
                    THEN FoldersAfterDelete(st1.folders, subfolderIds)
                    ELSE st1.folders
        files1 == IF sub.ids # <<>>
                  THEN FilesAfterFolderDelete(st1.folders, st1.files,
                                              subfolderIds)
                  ELSE st1.files
        folders2 == FoldersAfterDelete(folders1, {folderId})
        files2 == FilesAfterFolderDelete(folders1, files1, {folderId})
        cleared == CacheDeleteByPattern(
                       CacheDeleteAll(st1.cache,
                           DeleteFolderKeys(userId, folderId,
                                            folder.parent_folder_id)),
                       "user:folder_tree", userId)
    IN
    IF fault = "begin" THEN [st EXCEPT !.res = Fail(op, ErrDeleteFolderFailed)]
    ELSE IF found = {}
    THEN [st EXCEPT !.res = Fail(op, ErrFolderNotFound)]
    ELSE IF sub.diverges
    THEN [st1 EXCEPT !.returns = FALSE]
    ELSE IF \/ fault = "delete_subfolders" /\ sub.ids # <<>>
            \/ fault = "delete_folder"
    THEN [st1 EXCEPT !.res = Fail(op, ErrDeleteFolderFailed)]
    ELSE IF fault = "commit"
    THEN [st1 EXCEPT !.cache = cleared,
                     !.res = Fail(op, ErrDeleteFolderFailed)]
    ELSE [st1 EXCEPT !.folders = folders2,
                     !.files = files2,
                     !.cache = cleared,
                     !.res = [Ok(op) EXCEPT
                                !.folderRows = Cardinality(st1.folders)
                                                 - Cardinality(folders2),
                                !.fileRows = Cardinality(st1.files)
                                               - Cardinality(files2)]]

\* ------------------------------------------------------------------------
\* Cache-backed reads.  A read returns [res, data, cache]: its result, the
\* payload as a list (a single object is a list of one, a failure the
\* empty list) and the cache it leaves.  Cached values go through
\* JSON.stringify / JSON.parse, which keeps the fields modelled here
\* (numbers, strings, null, arrays, objects); timestamps are not modelled.
\* ------------------------------------------------------------------------
NoName == ""

RECURSIVE SortFolders(_)
\* ORDER BY name ASC on folder rows (equal names in id order)
SortFolders(S) ==
    IF S = {} THEN <<>>
    ELSE LET m == CHOOSE x \in S : \A y \in S :
                     \/ NameRank(x.name) < NameRank(y.name)
                     \/ /\ x.name = y.name
                        /\ x.folder_id <= y.folder_id
         IN <<m>> \o SortFolders(S \ {m})

RECURSIVE SortFiles(_)
\* ORDER BY name ASC on file rows (equal names in id order)
SortFiles(S) ==
    IF S = {} THEN <<>>
    ELSE LET m == CHOOSE x \in S : \A y \in S :
                     \/ NameRank(x.name) < NameRank(y.name)
                     \/ /\ x.name = y.name
                        /\ x.file_id <= y.file_id
         IN <<m>> \o SortFiles(S \ {m})

Read(op, data, c) == [res |-> Ok(op), data |-> data, cache |-> c]
ReadFail(op, error, c) == [res |-> Fail(op, error), data |-> <<>>, cache |-> c]

GetFolderDetails(c, fs, userId, folderId) ==
    LET op == "getFolderDetails"
        key == Key("folder", folderId)
        found == FolderOfUser(fs, folderId, userId)
        folder == CHOOSE f \in found : TRUE
        parentFolders == {f \in fs : f.folder_id = folder.parent_folder_id}
        parentFolderName ==
            IF folder.parent_folder_id # Null /\ parentFolders # {}
            THEN (CHOOSE f \in parentFolders : TRUE).name
            ELSE NoName
        folderDetails ==
            [id |-> folder.folder_id, name |-> folder.name,
             parent_folder_id |-> folder.parent_folder_id,
             parent_folder_name |-> parentFolderName]
    IN IF CacheHas(c, key) THEN Read(op, <<c[key]>>, c)
       ELSE IF found = {} THEN ReadFail(op, ErrFolderNotFound, c)
       ELSE Read(op, <<folderDetails>>, CacheSet(c, key, folderDetails))

GetSubfolders(c, fs, userId, folderId) ==
    LET op == "getSubfolders"
        cacheKey == IF folderId # Null
                    THEN Key("folder:subfolders", folderId)
                    ELSE Key("user:root:subfolders", userId)
        subfolders == SortFolders({f \in fs : /\ f.user_id = userId
                                              /\ f.parent_folder_id = folderId})
        subfolderList ==
            [i \in 1..Len(subfolders) |->
                [id |-> subfolders[i].folder_id,
                 name |-> subfolders[i].name,
                 parent_folder_id |-> subfolders[i].parent_folder_id]]
    IN IF CacheHas(c, cacheKey) THEN Read(op, c[cacheKey], c)
       ELSE Read(op, subfolderList, CacheSet(c, cacheKey, subfolderList))

GetFilesInFolder(c, fl, userId, folderId) ==
    LET op == "getFilesInFolder"
        cacheKey == IF folderId # Null
                    THEN Key("folder:files", folderId)
                    ELSE Key("user:root:files", userId)
        rows == SortFiles({f \in fl : /\ f.user_id = userId
                                      /\ f.folder_id = folderId})
        fileList ==
            [i \in 1..Len(rows) |->
                [id |-> rows[i].file_id, name |-> rows[i].name,
                 folder_id |-> rows[i].folder_id,
                 file_name |-> rows[i].name]]
    IN IF CacheHas(c, cacheKey) THEN Read(op, c[cacheKey], c)
       ELSE Read(op, fileList, CacheSet(c, cacheKey, fileList))

GetFolderContents(c, fs, fl, userId, folderId) ==
    LET op == "getFolderContents"
        cacheKey == IF folderId # Null
                    THEN Key("folder:contents", folderId)
                    ELSE Key("user:root:contents", userId)
        subfoldersResult == GetSubfolders(c, fs, userId, folderId)
        subfolders == IF subfoldersResult.res.success
                      THEN subfoldersResult.data ELSE <<>>
        filesResult == GetFilesInFolder(subfoldersResult.cache, fl, userId,
                                        folderId)
        fileList == IF filesResult.res.success THEN filesResult.data ELSE <<>>
        formattedSubfolders ==
            [i \in 1..Len(subfolders) |->
                [id |-> subfolders[i].id, name |-> subfolders[i].name,
                 level |-> IF subfolders[i].parent_folder_id # Null
                           THEN 1 ELSE 0,
                 nodeId |-> <<"", subfolders[i].id>>]]
        formattedFiles ==
            [i \in 1..Len(fileList) |->
                [id |-> fileList[i].id, name |-> fileList[i].name,
                 level |-> IF folderId # Null THEN 1 ELSE 0,
                 nodeId |-> <<"file-", fileList[i].id>>]]
        contents == formattedSubfolders \o formattedFiles
    IN IF CacheHas(c, cacheKey) THEN Read(op, c[cacheKey], c)
       ELSE Read(op, contents, CacheSet(filesResult.cache, cacheKey, contents))

\* getFolderTree's buildTree(parentId) over the owner's rows
BuildTreeOneLevel(rows, parentId) ==
    LET nodes == SortFolders({f \in rows : f.parent_folder_id = parentId})
    IN [i \in 1..Len(nodes) |->
           [id |-> nodes[i].folder_id, name |-> nodes[i].name,
            level |-> IF parentId = Null THEN 0 ELSE 1,
            nodeId |-> <<"", nodes[i].folder_id>>,
            sub_classifications |-> <<>>]]

RECURSIVE BuildTree(_, _)
BuildTree(rows, parentId) ==
    LET nodes == SortFolders({f \in rows : f.parent_folder_id = parentId})
    IN [i \in 1..Len(nodes) |->
           [id |-> nodes[i].folder_id, name |-> nodes[i].name,
            level |-> IF parentId = Null THEN 0 ELSE 1,
            nodeId |-> <<"", nodes[i].folder_id>>,
            sub_classifications |-> BuildTree(rows, nodes[i].folder_id)]]

GetFolderTree(c, fs, userId) ==
    LET op == "getFolderTree"
        cacheKey == Key("user:folder_tree", userId)
        tree == BuildTree({f \in fs : f.user_id = userId}, Null)
    IN IF CacheHas(c, cacheKey) THEN Read(op, c[cacheKey], c)
       ELSE Read(op, tree, CacheSet(c, cacheKey, tree))

GetFileDetails(c, fl, userId, fileId) ==
    LET op == "getFileDetails"
        key == Key("file", fileId)
        found == {f \in fl : f.file_id = fileId /\ f.user_id = userId}
        file == CHOOSE f \in found : TRUE
        fileDetails == [id |-> file.file_id, name |-> file.name,
                        folder_id |-> file.folder_id]
    IN IF CacheHas(c, key) THEN Read(op, <<c[key]>>, c)
       ELSE IF found = {} THEN ReadFail(op, ErrFileNotFound, c)
       ELSE Read(op, <<fileDetails>>, CacheSet(c, key, fileDetails))

\* ------------------------------------------------------------------------
\* Connections and their transactions
\* ------------------------------------------------------------------------
\* A transaction: the handler and its arguments, where it stands (pc), what
\* its SELECTs read (snapParent: the folder's parent; ids: deleteFolder's
\* subfolderIds), its uncommitted writes (put: row versions written; del:
\* ids of deleted rows), the parent rows it share-locked for the foreign
\* key check (s), and how many other transactions it overlapped in time.
Txn(pc, op, userId, folderId, name, parentId, snapParent, ids) ==
    [pc |-> pc, op |-> op, userId |-> userId, folderId |-> folderId,
     name |-> name, parentId |-> parentId, snapParent |-> snapParent,
     ids |-> ids, put |-> {}, putFiles |-> {}, del |-> {}, s |-> {},
     overlaps |-> 0]

Idle == Txn("idle", "none", Null, Null, NoName, Null, Null, {})

\* What a handler returned, with its arguments.
Report(t, success, error) ==
    [op |-> t.op, userId |-> t.userId, folderId |-> t.folderId,
     name |-> t.name, parentId |-> t.parentId, snapParent |-> t.snapParent,
     success |-> success, error |-> error, overlaps |-> t.overlaps]

NoReport == Report(Idle, FALSE, ErrNone)

\* ------------------------------------------------------------------------
\* Spec: calls run one at a time
\* ------------------------------------------------------------------------
\* [bounded |-> FALSE]: any number of steps; [bounded |-> TRUE, left |-> n]:
\* n more steps.
Unbounded == [bounded |-> FALSE, left |-> 0]
AtMost(n) == [bounded |-> TRUE, left |-> n]

Tick ==
    /\ budget.bounded => budget.left > 0
    /\ budget' = IF budget.bounded
                 THEN [budget EXCEPT !.left = budget.left - 1]
                 ELSE budget

\* ------------------------------------------------------------------------
\* The directory tree under UPLOAD_DIR (services/fileStorage.ts).  A path
\* is the sequence of its names below UPLOAD_DIR: <<user, first, second>>
\* is the directory uploads/user_<id>/<first>/<second> and a fourth name
\* is a blob in it.  Each storage call in flight stands at one of its
\* awaited file system calls.
\* ------------------------------------------------------------------------
UploadDir == <<>>

\* The two three-character directory names cut from a UUID
Shards == {1, 2}

\* path.dirname
Dirname(path) == SubSeq(path, 1, Len(path) - 1)

\* path lies below dir
IsUnder(path, dir) ==
    Len(path) > Len(dir) /\ SubSeq(path, 1, Len(dir)) = dir

\* readdir(dirPath): the entries directly in the directory
DirContents(entries, dirPath) ==
    {e \in entries : e # UploadDir /\ Dirname(e) = dirPath}

IdleCall == [pc |-> "idle", path |-> <<>>, dirPath |-> <<>>]

\* ------------------------------------------------------------------------
\* The connection pool (mysql.createPool: waitForConnections, no queue
\* limit) and the call stack of each request.
\* ------------------------------------------------------------------------
Reqs == 1..MaxReqs

\* The handlers that take a connection for themselves.
PoolOps ==
    {"uploadFile", "downloadFile", "deleteFile", "getFileDetails",
     "getFilesInFolder", "searchFiles", "createFolder", "deleteFolder",
     "renameFolder", "getFolderDetails", "getSubfolders", "moveFolder",
     "getFolderContents", "getFolderTree", "searchFolders"}

\* The handlers a handler awaits inside its try block while it holds its
\* connection: getFolderContents on a cache miss, deleteFolder once per
\* file row of the folder.
NestedCalls(op, fileRows) ==
    IF op = "getFolderContents" THEN <<"getSubfolders", "getFilesInFolder">>
    ELSE IF op = "deleteFolder" THEN [i \in 1..fileRows |-> "deleteFile"]
    ELSE <<>>

\* A handler that was called and has not taken its connection yet.
PoolFrame(op, todo) == [op |-> op, pc |-> "getConnection", todo |-> todo]

InitPool == [inUse |-> 0, calls |-> [r \in Reqs |-> <<>>]]

\* initializeStorage: UPLOAD_DIR exists and is empty
InitDisk ==
    [entries |-> {UploadDir}, calls |-> [c \in Conns |-> IdleCall],
     next |-> 1]

InitStore ==
    /\ folders = {}
    /\ files = {}
    /\ nextFolderId = 1
    /\ nextFileId = 1
    /\ blobs = {}
    /\ nextBlobId = 1
    /\ cache = EmptyCache
    /\ last = Ok("init")
    /\ txns = [c \in Conns |-> Idle]
    /\ reports = [c \in Conns |-> NoReport]
    /\ disk = InitDisk
    /\ pool = InitPool

Init == InitStore /\ budget = Unbounded

\* The handler returned with `out`: its effects are the new state.  The id
\* counters stop at the bounds of the model.
Returns(out) ==
    /\ out.returns
    /\ out.nextFolderId <= MaxFolderId + 1
    /\ out.nextFileId <= MaxFileId + 1
    /\ out.nextBlobId <= MaxBlobId + 1
    /\ folders' = out.folders
    /\ files' = out.files
    /\ nextFolderId' = out.nextFolderId
    /\ nextFileId' = out.nextFileId
    /\ blobs' = out.blobs
    /\ nextBlobId' = out.nextBlobId
    /\ cache' = out.cache
    /\ last' = out.res
    /\ Tick
    /\ UNCHANGED <<txns, reports, disk, pool>>

CreateFaults == {"none", "begin", "write", "commit", "reread"}
UpdateFaults == {"none", "begin", "write", "commit"}
DeleteFolderFaults ==
    {"none", "begin", "delete_subfolders", "delete_folder", "commit"}

DoCreateFolder(userId, name, parentFolderId, fault) ==
    Returns(CreateFolder(State, userId, name, parentFolderId, fault))

DoRenameFolder(userId, folderId, newName, fault) ==
    Returns(RenameFolder(State, userId, folderId, newName, fault))

DoMoveFolder(userId, folderId, newParentId, fault) ==
    Returns(MoveFolder(State, userId, folderId, newParentId, fault))

DoDeleteFolder(userId, folderId, fault, diskOk) ==
    Returns(DeleteFolder(State, userId, folderId, fault, diskOk))

DoUploadFile(userId, name, folderId, data, fault, diskOk) ==
    Returns(UploadFile(State, userId, name, folderId, data, fault, diskOk))

DoDeleteFile(userId, fileId, fault, diskOk) ==
    Returns(DeleteFile(State, userId, fileId, fault, diskOk))

\* A read returned with `r`: it changes the cache alone.
ReadReturns(r) ==
    /\ cache' = r.cache
    /\ last' = r.res
    /\ Tick
    /\ UNCHANGED <<storeVars, blobs, nextBlobId, disk, pool, txns, reports>>

DoGetFolderDetails(userId, folderId) ==
    ReadReturns(GetFolderDetails(cache, folders, userId, folderId))

DoGetSubfolders(userId, folderId) ==
    ReadReturns(GetSubfolders(cache, folders, userId, folderId))

DoGetFilesInFolder(userId, folderId) ==
    ReadReturns(GetFilesInFolder(cache, files, userId, folderId))

DoGetFolderContents(userId, folderId) ==
    ReadReturns(GetFolderContents(cache, folders, files, userId, folderId))

DoGetFolderTree(userId) ==
    ReadReturns(GetFolderTree(cache, folders, userId))

DoGetFileDetails(userId, fileId) ==
    ReadReturns(GetFileDetails(cache, files, userId, fileId))

\* SETEX: a key expires when its 3600 seconds are over.
Expire(k) ==
    /\ k \in DOMAIN cache
    /\ cache' = CacheDelete(cache, k)
    /\ Tick
    /\ UNCHANGED <<storeVars, blobs, nextBlobId, disk, pool, last, txns, reports>>

Next ==
    \/ \E u \in Users, n \in Names, p \in FolderIds \cup {Null},
          ft \in CreateFaults : DoCreateFolder(u, n, p, ft)
    \/ \E u \in Users, f \in FolderIds, n \in Names, ft \in UpdateFaults :
          DoRenameFolder(u, f, n, ft)
    \/ \E u \in Users, f \in FolderIds, p \in FolderIds \cup {Null},
          ft \in UpdateFaults : DoMoveFolder(u, f, p, ft)
    \/ \E u \in Users, f \in FolderIds, ft \in DeleteFolderFaults :
          DoDeleteFolder(u, f, ft, TRUE)

Spec == Init /\ [][Next]_vars

\* ------------------------------------------------------------------------
\* SpecFiles: folders holding files.  Folders are created and deleted,
\* files uploaded and deleted, with store and disk faults.
\* ------------------------------------------------------------------------
\* <<fault, diskOk>>: at most one thing goes wrong in a call.
FileFaults == {<<"none", TRUE>>, <<"none", FALSE>>, <<"commit", TRUE>>}
FolderFileFaults == {<<"none", TRUE>>, <<"none", FALSE>>,
                     <<"delete_subfolders", TRUE>>, <<"delete_folder", TRUE>>,
                     <<"commit", TRUE>>}
Bytes == {"d"}

\* One owner works here; Spec and SpecConc run more than one.
FileUsers == {1}

NextFiles ==
    \/ \E u \in FileUsers, n \in Names, p \in FolderIds \cup {Null} :
          DoCreateFolder(u, n, p, "none")
    \/ \E u \in FileUsers, n \in FileNames, f \in FolderIds \cup {Null},
          d \in Bytes, ft \in FileFaults :
          DoUploadFile(u, n, f, d, ft[1], ft[2])
    \/ \E u \in FileUsers, i \in FileIds, ft \in FileFaults :
          DoDeleteFile(u, i, ft[1], ft[2])
    \/ \E u \in FileUsers, f \in FolderIds, ft \in FolderFileFaults :
          DoDeleteFolder(u, f, ft[1], ft[2])

SpecFiles == Init /\ [][NextFiles]_vars

\* ------------------------------------------------------------------------
\* SpecBlobs: two owners upload files of different bytes to the root and
\* to folders, download them and delete them, with store and disk faults.
\* ------------------------------------------------------------------------
BlobBytes == {"d", "e"}
BlobFaults == {<<"none", TRUE>>, <<"none", FALSE>>, <<"write", TRUE>>,
               <<"commit", TRUE>>}

DoDownloadFile(userId, fileId) ==
    LET r == DownloadFile(files, blobs, userId, fileId)
    IN /\ last' = IF r.success THEN Ok("downloadFile")
                  ELSE Fail("downloadFile", r.error)
       /\ Tick
       /\ UNCHANGED <<storeVars, blobs, nextBlobId, disk, pool, cache, txns, reports>>

NextBlobs ==
    \/ \E u \in Users : DoCreateFolder(u, "a", Null, "none")
    \/ \E u \in Users, f \in FolderIds \cup {Null}, d \in BlobBytes,
          ft \in BlobFaults : DoUploadFile(u, "a", f, d, ft[1], ft[2])
    \/ \E u \in Users, i \in FileIds, ft \in BlobFaults :
          DoDeleteFile(u, i, ft[1], ft[2])
    \/ \E u \in Users, i \in FileIds : DoDownloadFile(u, i)

SpecBlobs == Init /\ [][NextBlobs]_vars

\* ------------------------------------------------------------------------
\* SpecCache: calls of one owner, reads included, run one at a time with
\* the store and the disk working; a run takes at most MaxSteps steps.
\* ------------------------------------------------------------------------
CacheUsers == {1}

InitCache == InitStore /\ budget = AtMost(MaxSteps)

\* Two owners who create folders, upload files and read, over one cache.
NextOwners ==
    \/ \E u \in Users, p \in FolderIds \cup {Null} :
           DoCreateFolder(u, "a", p, "none")
    \/ \E u \in Users, f \in FolderIds \cup {Null}, d \in Bytes :
           DoUploadFile(u, "a", f, d, "none", TRUE)
    \/ \E u \in Users, f \in FolderIds : DoGetFolderDetails(u, f)
    \/ \E u \in Users, f \in FolderIds \cup {Null} : DoGetSubfolders(u, f)
    \/ \E u \in Users, f \in FolderIds \cup {Null} : DoGetFilesInFolder(u, f)
    \/ \E u \in Users, f \in FolderIds \cup {Null} : DoGetFolderContents(u, f)
    \/ \E u \in Users, i \in FileIds : DoGetFileDetails(u, i)

SpecOwners == InitCache /\ [][NextOwners]_vars

\* Two owners calling every handler that takes a folder id or a file id.
NextScoped ==
    \/ \E u \in Users, p \in FolderIds \cup {Null} :
           DoCreateFolder(u, "a", p, "none")
    \/ \E u \in Users, f \in FolderIds : DoRenameFolder(u, f, "b", "none")
    \/ \E u \in Users, f \in FolderIds, p \in FolderIds \cup {Null} :
           DoMoveFolder(u, f, p, "none")
    \/ \E u \in Users, f \in FolderIds : DoDeleteFolder(u, f, "none", TRUE)
    \/ \E u \in Users, f \in FolderIds \cup {Null}, d \in Bytes :
           DoUploadFile(u, "a", f, d, "none", TRUE)
    \/ \E u \in Users, i \in FileIds : DoDeleteFile(u, i, "none", TRUE)
    \/ \E u \in Users, i \in FileIds : DoDownloadFile(u, i)

InitScoped == InitStore /\ budget = AtMost(MaxCalls)

SpecScoped == InitScoped /\ [][NextScoped]_vars

\* Batches of uploads: one owner uploads lists of up to MaxBatch files,
\* each with its own store or disk fault, into the root or a folder.
BatchFiles ==
    {UploadedFile(n, d, ft[1], ft[2]) : n \in Names, d \in Bytes,
                                        ft \in FileFaults}

BatchInputs ==
    UNION {[1..k -> BatchFiles] : k \in 1..MaxBatch}

DoUploadMultipleFiles(userId, fileList, folderId) ==
    Returns(UploadMultipleFiles(State, userId, fileList, folderId).st)

NextBatch ==
    \/ \E u \in FileUsers, n \in Names : DoCreateFolder(u, n, Null, "none")
    \/ \E u \in FileUsers, fl \in BatchInputs, f \in FolderIds \cup {Null} :
           DoUploadMultipleFiles(u, fl, f)

SpecBatch == Init /\ [][NextBatch]_vars

\* Handlers run while Redis is unreachable.  cacheMiddleware.get catches
\* the error and returns null, so the handler reads every key as absent;
\* set, delete and deleteByPattern catch it and return false, which no
\* handler looks at, so the cache holds afterwards what it held before.
CacheDown(st) == [st EXCEPT !.cache = EmptyCache]

CacheUnavailableThrows(st, out) ==
    [st EXCEPT !.res = Fail(out.res.op, "Cache unavailable")]

CacheUnavailable(st, out) == [out EXCEPT !.cache = st.cache]

ReadUnavailable(c, r) == [r EXCEPT !.cache = c]

\* One owner's handlers, with Redis reachable in some calls and not in
\* others.
NextOutage ==
    \/ \E u \in CacheUsers, p \in FolderIds \cup {Null} :
           DoCreateFolder(u, "a", p, "none")
    \/ \E u \in CacheUsers, f \in FolderIds \cup {Null} : DoGetSubfolders(u, f)
    \/ \E u \in CacheUsers, n \in Names, p \in FolderIds \cup {Null} :
           Returns(CacheUnavailable(State,
                       CreateFolder(CacheDown(State), u, n, p, "none")))
    \/ \E u \in CacheUsers, f \in FolderIds, n \in Names :
           Returns(CacheUnavailable(State,
                       RenameFolder(CacheDown(State), u, f, n, "none")))
    \/ \E u \in CacheUsers, f \in FolderIds, p \in FolderIds \cup {Null} :
           Returns(CacheUnavailable(State,
                       MoveFolder(CacheDown(State), u, f, p, "none")))
    \/ \E u \in CacheUsers, f \in FolderIds :
           Returns(CacheUnavailable(State,
                       DeleteFolder(CacheDown(State), u, f, "none", TRUE)))
    \/ \E u \in CacheUsers, f \in FolderIds \cup {Null}, d \in Bytes :
           Returns(CacheUnavailable(State,
                       UploadFile(CacheDown(State), u, "a", f, d, "none",
                                  TRUE)))
    \/ \E u \in CacheUsers, i \in FileIds :
           Returns(CacheUnavailable(State,
                       DeleteFile(CacheDown(State), u, i, "none", TRUE)))
    \/ \E u \in CacheUsers, f \in FolderIds \cup {Null} :
           ReadReturns(ReadUnavailable(cache,
                           GetFolderContents(EmptyCache, folders, files, u,
                                             f)))
    \/ \E u \in CacheUsers, f \in FolderIds :
           ReadReturns(ReadUnavailable(cache,
                           GetFolderDetails(EmptyCache, folders, u, f)))

SpecOutage == InitCache /\ [][NextOutage]_vars

\* Two owners who change their folders and read their folder trees.
NextTree ==
    \/ \E u \in Users, p \in FolderIds \cup {Null} :
           DoCreateFolder(u, "a", p, "none")
    \/ \E u \in Users, f \in FolderIds : DoRenameFolder(u, f, "b", "none")
    \/ \E u \in Users, f \in FolderIds, p \in FolderIds \cup {Null} :
           DoMoveFolder(u, f, p, "none")
    \/ \E u \in Users, f \in FolderIds : DoDeleteFolder(u, f, "none", TRUE)
    \/ \E u \in Users : DoGetFolderTree(u)

SpecTree == InitScoped /\ [][NextTree]_vars

\* ------------------------------------------------------------------------
\* SpecDisk: saveFile and the storage deleteFile, called from requests that
\* run side by side and interleave at their awaited file system calls.
\* ------------------------------------------------------------------------
DiskStep(c, call, entries) ==
    /\ disk' = [disk EXCEPT !.calls[c] = call, !.entries = entries]
    /\ UNCHANGED <<storeVars, blobs, nextBlobId, cache, last, budget, txns,
                   reports, pool>>

\* saveFile: randomUUID(), then the paths built from it
StartSaveFile(c, userId, firstDir, secondDir) ==
    LET filePath == <<userId, firstDir, secondDir, disk.next>>
    IN /\ disk.calls[c].pc = "idle"
       /\ disk.next <= MaxBlobId
       /\ disk' = [disk EXCEPT
                      !.calls[c] = [pc |-> "mkdir", path |-> filePath,
                                    dirPath |-> Dirname(filePath)],
                      !.next = disk.next + 1]
       /\ UNCHANGED <<storeVars, blobs, nextBlobId, cache, last, budget,
                      txns, reports, pool>>

\* await mkdir(fileDir, { recursive: true })
Mkdir(c) ==
    LET call == disk.calls[c]
    IN /\ call.pc = "mkdir"
       /\ DiskStep(c, [call EXCEPT !.pc = "writeFile"],
                   disk.entries
                       \cup {SubSeq(call.dirPath, 1, k) :
                                k \in 1..Len(call.dirPath)})

\* await writeFile(filePath, fileData): ENOENT when the directory is gone
WriteFile(c) ==
    LET call == disk.calls[c]
    IN /\ call.pc = "writeFile"
       /\ DiskStep(c, IdleCall,
                   IF call.dirPath \in disk.entries
                   THEN disk.entries \cup {call.path}
                   ELSE disk.entries)

\* deleteFile(filePath) of a stored blob
StartDeleteFile(c, filePath) ==
    /\ disk.calls[c].pc = "idle"
    /\ filePath \in disk.entries
    /\ Len(filePath) = 4
    /\ DiskStep(c, [pc |-> "unlink", path |-> filePath,
                    dirPath |-> Dirname(filePath)],
                disk.entries)

\* await unlink(fullPath): when it throws, deleteFile returns false
Unlink(c) ==
    LET call == disk.calls[c]
    IN /\ call.pc = "unlink"
       /\ IF call.path \in disk.entries
          THEN DiskStep(c, [call EXCEPT !.pc = "readdir"],
                        disk.entries \ {call.path})
          ELSE DiskStep(c, IdleCall, disk.entries)

\* while (dirPath !== UPLOAD_DIR) { readdir(dirPath); break when it has
\* entries; a throw ends the cleanup
Readdir(c) ==
    LET call == disk.calls[c]
    IN /\ call.pc = "readdir"
       /\ IF \/ call.dirPath = UploadDir
             \/ call.dirPath \notin disk.entries
             \/ DirContents(disk.entries, call.dirPath) # {}
          THEN DiskStep(c, IdleCall, disk.entries)
          ELSE DiskStep(c, [call EXCEPT !.pc = "rm"], disk.entries)

\* await rm(dirPath, { recursive: true }); dirPath = dirname(dirPath)
Rm(c) ==
    LET call == disk.calls[c]
    IN /\ call.pc = "rm"
       /\ IF call.dirPath \notin disk.entries
          THEN DiskStep(c, IdleCall, disk.entries)
          ELSE DiskStep(c, [call EXCEPT !.pc = "readdir",
                                        !.dirPath = Dirname(call.dirPath)],
                        {e \in disk.entries :
                            e # call.dirPath /\ ~IsUnder(e, call.dirPath)})

NextDisk ==
    \/ \E c \in Conns, u \in FileUsers, d1 \in Shards, d2 \in Shards :
           StartSaveFile(c, u, d1, d2)
    \/ \E c \in Conns : Mkdir(c)
    \/ \E c \in Conns : WriteFile(c)
    \/ \E c \in Conns, e \in disk.entries : StartDeleteFile(c, e)
    \/ \E c \in Conns : Unlink(c)
    \/ \E c \in Conns : Readdir(c)
    \/ \E c \in Conns : Rm(c)

SpecDisk == Init /\ [][NextDisk]_vars

\* ------------------------------------------------------------------------
\* SpecPool: requests through the connection pool.  Each handler awaits
\* pool.getConnection() before its try block and releases the connection in
\* its finally block; a handler called from inside a try block takes a
\* connection of its own while the caller keeps its one.
\* ------------------------------------------------------------------------
Top(stack) == stack[Len(stack)]

Pop(stack) == SubSeq(stack, 1, Len(stack) - 1)

SetTop(stack, frame) == [stack EXCEPT ![Len(stack)] = frame]

PoolStep(inUse, r, stack) ==
    /\ pool' = [pool EXCEPT !.inUse = inUse, !.calls[r] = stack]
    /\ UNCHANGED <<storeVars, blobs, nextBlobId, cache, last, budget, txns,
                   reports, disk>>

\* A route calls a handler.
StartCall(r, op, fileRows) ==
    /\ pool.calls[r] = <<>>
    /\ PoolStep(pool.inUse, r, <<PoolFrame(op, NestedCalls(op, fileRows))>>)

\* const connection = await pool.getConnection(): resolves when fewer than
\* connectionLimit connections are checked out, waits otherwise.
GetConnection(r) ==
    /\ pool.calls[r] # <<>>
    /\ Top(pool.calls[r]).pc = "getConnection"
    /\ pool.inUse < ConnectionLimit
    /\ PoolStep(pool.inUse + 1, r,
                SetTop(pool.calls[r], [Top(pool.calls[r]) EXCEPT !.pc = "try"]))

\* Inside try: await fileController.deleteFile(...) and the like.
CallNested(r) ==
    /\ pool.calls[r] # <<>>
    /\ Top(pool.calls[r]).pc = "try"
    /\ Top(pool.calls[r]).todo # <<>>
    /\ LET top == Top(pool.calls[r])
       IN PoolStep(pool.inUse, r,
                   Append(SetTop(pool.calls[r],
                                 [top EXCEPT !.todo = Tail(top.todo)]),
                          PoolFrame(Head(top.todo), <<>>)))

\* Control leaves the try block: the return at its end, an early return
\* (cache hit, not found, conflict), or a throw caught by the catch block.
LeaveTry(r) ==
    /\ pool.calls[r] # <<>>
    /\ Top(pool.calls[r]).pc = "try"
    /\ PoolStep(pool.inUse, r,
                SetTop(pool.calls[r],
                       [Top(pool.calls[r]) EXCEPT !.pc = "finally",
                                                  !.todo = <<>>]))

ReleaseLeaks(r) ==
    /\ pool.calls[r] # <<>>
    /\ Top(pool.calls[r]).pc = "finally"
    /\ PoolStep(pool.inUse, r, Pop(pool.calls[r]))

\* finally { connection.release(); } and the handler returns to its caller.
Release(r) ==
    /\ pool.calls[r] # <<>>
    /\ Top(pool.calls[r]).pc = "finally"
    /\ PoolStep(pool.inUse - 1, r, Pop(pool.calls[r]))

NextPool ==
    \/ \E r \in Reqs, op \in PoolOps, k \in 0..MaxNested : StartCall(r, op, k)
    \/ \E r \in Reqs : GetConnection(r)
    \/ \E r \in Reqs : CallNested(r)
    \/ \E r \in Reqs : LeaveTry(r)
    \/ \E r \in Reqs : Release(r)

SpecPool == Init /\ [][NextPool]_vars

\* Folder names as the callers can send them, with the characters of each:
\* validateFolderName works on the characters, which a TLA+ string hides.
FolderNameInputs == {"a", "b", "a/b", ""}

NameChars(name) ==
    CASE name = "a"   -> <<"a">>
      [] name = "b"   -> <<"b">>
      [] name = "a/b" -> <<"a", "/", "b">>
      [] name = ""    -> <<>>

MaxNameLength == 255
InvalidChars == {"/", "\\", ":", "*", "?", "\"", "<", ">", "|"}

\* validateFolderName of utils/fileValidator.ts: TRUE iff isValid.
ValidateFolderName(name) ==
    LET cs == NameChars(name)
    IN /\ \E i \in 1..Len(cs) : cs[i] # " "
       /\ Len(cs) <= MaxNameLength
       /\ \A i \in 1..Len(cs) : cs[i] \notin InvalidChars

\* createFolder and renameFolder with every name a caller can send.
NextNames ==
    \/ \E u \in CacheUsers, n \in FolderNameInputs, p \in FolderIds \cup {Null} :
           DoCreateFolder(u, n, p, "none")
    \/ \E u \in CacheUsers, X \in FolderIds, n \in FolderNameInputs :
           DoRenameFolder(u, X, n, "none")

SpecNames == Init /\ [][NextNames]_vars


NextCache ==
    \/ \E u \in CacheUsers, n \in Names, p \in FolderIds \cup {Null} :
          DoCreateFolder(u, n, p, "none")
    \/ \E u \in CacheUsers, f \in FolderIds, n \in Names :
          DoRenameFolder(u, f, n, "none")
    \/ \E u \in CacheUsers, f \in FolderIds, p \in FolderIds \cup {Null} :
          DoMoveFolder(u, f, p, "none")
    \/ \E u \in CacheUsers, f \in FolderIds :
          DoDeleteFolder(u, f, "none", TRUE)
    \/ \E u \in CacheUsers, n \in FileNames, f \in FolderIds \cup {Null},
          d \in Bytes : DoUploadFile(u, n, f, d, "none", TRUE)
    \/ \E u \in CacheUsers, i \in FileIds : DoDeleteFile(u, i, "none", TRUE)
    \/ \E u \in CacheUsers, f \in FolderIds : DoGetFolderDetails(u, f)
    \/ \E u \in CacheUsers, f \in FolderIds \cup {Null} : DoGetSubfolders(u, f)
    \/ \E u \in CacheUsers, f \in FolderIds \cup {Null} :
          DoGetFilesInFolder(u, f)
    \/ \E u \in CacheUsers, f \in FolderIds \cup {Null} :
          DoGetFolderContents(u, f)
    \/ \E u \in CacheUsers : DoGetFolderTree(u)
    \/ \E u \in CacheUsers, i \in FileIds : DoGetFileDetails(u, i)
    \/ \E k \in DOMAIN cache : Expire(k)

SpecCache == InitCache /\ [][NextCache]_vars

\* ------------------------------------------------------------------------
\* SpecConc: folder handlers of one owner interleaved, each on its own pooled
\* connection and InnoDB transaction (REPEATABLE READ, the MySQL default;
\* the code sets no isolation level).  The SELECTs of a handler are
\* non-locking consistent reads of the snapshot taken by its first SELECT,
\* and all of them precede its first write, so they are one step on the
\* committed rows.  Each INSERT / UPDATE / DELETE is a step of its own: it
\* works on the latest committed rows, takes row locks that are held until
\* commit or rollback, and waits while another transaction holds a lock it
\* needs.  The files table stays empty here, so deleteFolder's loop over
\* the folder's files makes no call.
\* ------------------------------------------------------------------------
ConcUsers == {1}
Diverges == "diverges"

InitConc ==
    /\ InitStore
    /\ budget = AtMost(MaxTxns)

Bump(n) == IF n < 2 THEN n + 1 ELSE n

\* The catch block's error of each handler.
CatchError(op) ==
    CASE op = "createFolder" -> ErrCreateFailed
      [] op = "renameFolder" -> ErrRenameFailed
      [] op = "moveFolder" -> ErrMoveFailed
      [] op = "deleteFolder" -> ErrDeleteFolderFailed
      [] op = "uploadFile" -> ErrUploadFailed

\* The checks a handler makes before its first write: the error it returns
\* after rollback, ErrNone when it goes on, Diverges when it never returns.
CreateCheck(fs, userId, name, parentFolderId) ==
    IF parentFolderId # Null /\ FolderOfUser(fs, parentFolderId, userId) = {}
    THEN ErrParentNotFound
    ELSE IF CreateExisting(fs, userId, name, parentFolderId) # {}
    THEN ErrFolderExists
    ELSE ErrNone

RenameCheck(fs, userId, folderId, newName) ==
    LET found == FolderOfUser(fs, folderId, userId)
        folder == CHOOSE f \in found : TRUE
    IN IF found = {} THEN ErrFolderNotFound
       ELSE IF RenameExisting(fs, userId, newName, folderId,
                              folder.parent_folder_id) # {}
       THEN ErrRenameExists
       ELSE ErrNone

MoveCheck(fs, userId, folderId, newParentId) ==
    LET found == FolderOfUser(fs, folderId, userId)
        folder == CHOOSE f \in found : TRUE
        desc == IsDescendant(fs, folderId, newParentId, Cardinality(fs))
    IN IF found = {} THEN ErrFolderNotFound
       ELSE IF folderId = newParentId THEN ErrMoveSelf
       ELSE IF newParentId # Null
               /\ FolderOfUser(fs, newParentId, userId) = {}
       THEN ErrNewParentNotFound
       ELSE IF newParentId # Null /\ desc = "diverges" THEN Diverges
       ELSE IF newParentId # Null /\ desc = "true" THEN ErrMoveSubfolder
       ELSE IF MoveExisting(fs, userId, folder.name, newParentId) # {}
       THEN ErrMoveExists
       ELSE ErrNone

DeleteCheck(fs, userId, folderId) ==
    IF FolderOfUser(fs, folderId, userId) = {} THEN ErrFolderNotFound
    ELSE IF GetSubfolderIds(fs, folderId, Cardinality(fs)).diverges
    THEN Diverges
    ELSE ErrNone

\* The parent of the folder as the handler's SELECT reads it.
SnapParent(fs, userId, folderId) ==
    LET found == FolderOfUser(fs, folderId, userId)
    IN IF found = {} THEN Null
       ELSE (CHOOSE f \in found : TRUE).parent_folder_id

\* A handler takes connection c, begins its transaction and runs its
\* SELECTs; `verdict` is what its checks conclude.
Begin(c, t, verdict) ==
    LET others == {o \in Conns \ {c} : txns[o].pc # "idle"}
        mine == [t EXCEPT !.overlaps = IF others = {} THEN 0
                                       ELSE Bump(Cardinality(others) - 1),
                          !.pc = IF verdict = ErrNone THEN "checked"
                                 ELSE "looping"]
        goesOn == verdict \in {ErrNone, Diverges}
    IN /\ txns[c].pc = "idle"
       /\ Tick
       /\ txns' = [o \in Conns |->
                     IF o = c THEN IF goesOn THEN mine ELSE Idle
                     ELSE IF o \in others
                     THEN [txns[o] EXCEPT !.overlaps = Bump(txns[o].overlaps)]
                     ELSE txns[o]]
       /\ reports' = [reports EXCEPT ![c] =
                        IF goesOn THEN NoReport
                        ELSE Report(mine, FALSE, verdict)]

\* The handlers that write nothing outside their transaction before their
\* first statement.
Start(c, t, verdict) ==
    /\ Begin(c, t, verdict)
    /\ UNCHANGED <<storeVars, blobs, nextBlobId, disk, pool, cache, last>>

StartCreateFolder(c, userId, name, parentFolderId) ==
    Start(c, Txn("idle", "createFolder", userId, Null, name, parentFolderId,
                 Null, {}),
          CreateCheck(folders, userId, name, parentFolderId))

StartRenameFolder(c, userId, folderId, newName) ==
    Start(c, Txn("idle", "renameFolder", userId, folderId, newName, Null,
                 SnapParent(folders, userId, folderId), {}),
          RenameCheck(folders, userId, folderId, newName))

StartMoveFolder(c, userId, folderId, newParentId) ==
    Start(c, Txn("idle", "moveFolder", userId, folderId, NoName, newParentId,
                 SnapParent(folders, userId, folderId), {}),
          MoveCheck(folders, userId, folderId, newParentId))

StartDeleteFolder(c, userId, folderId) ==
    Start(c, Txn("idle", "deleteFolder", userId, folderId, NoName, Null,
                 SnapParent(folders, userId, folderId),
                 SeqToSet(GetSubfolderIds(folders, folderId,
                                          Cardinality(folders)).ids)),
          DeleteCheck(folders, userId, folderId))

\* Row locks held by the transactions other than the one on connection c:
\* exclusive on the rows they wrote or deleted, shared on the parents they
\* referenced; and the unique_folder index entries under those exclusive
\* locks (the old and the new key of a written row).
Holders(c) ==
    {o \in Conns \ {c} : txns[o].pc \in {"deleting", "written", "cleared"}}

RowIds(rows) == {r.folder_id : r \in rows}

XLocked(c) == UNION {txns[o].del \cup RowIds(txns[o].put) : o \in Holders(c)}

SLocked(c) == UNION {txns[o].s : o \in Holders(c)}

KeyOf(row) == <<row.user_id, row.parent_folder_id, row.name>>

LockedKeys(c) ==
    {KeyOf(r) : r \in UNION {txns[o].put : o \in Holders(c)}}
    \cup {KeyOf(f) : f \in {g \in folders : g.folder_id \in XLocked(c)}}

\* A statement: the rows it locks exclusively (x), the parent rows it
\* share-locks (s), the rows it checks against unique_folder (rows), the
\* row versions it writes (put), the ids it deletes (del), and whether
\* the server rejects it (error: duplicate key or missing parent).
Stmt(x, sh, rows, put, del, error) ==
    [x |-> x, s |-> sh, rows |-> rows, put |-> put, del |-> del,
     error |-> error]

\* The statement has to wait for a lock of another transaction.
Waits(c, st) ==
    \/ st.x \cap (XLocked(c) \cup SLocked(c)) # {}
    \/ st.s \cap XLocked(c) # {}
    \/ \E r \in st.rows : /\ r.parent_folder_id # Null
                          /\ KeyOf(r) \in LockedKeys(c)

\* INSERT INTO folders (name, parent_folder_id, user_id) VALUES (?, ?, ?)
InsertStmt(t) ==
    LET row == FolderRow(nextFolderId, t.userId, t.parentId, t.name)
    IN Stmt({}, {t.parentId} \ {Null}, {row}, {row}, {},
            DupFolderKey(folders, row) \/ ~FolderFkOk(folders, t.parentId))

\* UPDATE folders SET name = ? WHERE folder_id = ?
UpdateNameStmt(t) ==
    LET rows == {[f EXCEPT !.name = t.name] :
                    f \in {g \in folders : g.folder_id = t.folderId}}
    IN Stmt(RowIds(rows), {}, rows, rows, {},
            \E r \in rows : DupFolderKey(folders, r))

\* UPDATE folders SET parent_folder_id = ? WHERE folder_id = ?
UpdateParentStmt(t) ==
    LET rows == {[f EXCEPT !.parent_folder_id = t.parentId] :
                    f \in {g \in folders : g.folder_id = t.folderId}}
    IN Stmt(RowIds(rows), IF rows = {} THEN {} ELSE {t.parentId} \ {Null},
            rows, rows, {},
            \E r \in rows : \/ DupFolderKey(folders, r)
                            \/ ~FolderFkOk(folders, t.parentId))

\* DELETE FROM folders WHERE folder_id IN (ids), with its cascade, on the
\* rows the transaction has not deleted already.
DeleteStmt(t, ids) ==
    LET view == {f \in folders : f.folder_id \notin t.del}
        gone == CascadeClosure(view, ids) \cap RowIds(view)
    IN Stmt(gone, {}, {}, {}, gone, FALSE)

\* INSERT INTO files (user_id, folder_id, name, file_path, mime_type, size):
\* the folder row is share-locked for the foreign key check.
InsertFileStmt(t) ==
    LET rows == {[r EXCEPT !.file_id = nextFileId] : r \in t.putFiles}
    IN Stmt({}, {t.parentId} \ {Null}, {}, {}, {},
            \/ \E r \in rows : DupFileKey(files, r)
            \/ ~FileFkOk(folders, t.parentId))

\* The handler's catch block: rollback, release, return the failure.
Abort(c) ==
    /\ txns' = [txns EXCEPT ![c] = Idle]
    /\ reports' = [reports EXCEPT
                      ![c] = Report(txns[c], FALSE, CatchError(txns[c].op))]

\* The statement `st` of the transaction on connection c runs.
Execute(c, st, pc) ==
    /\ ~Waits(c, st)
    /\ IF st.error
       THEN Abort(c)
       ELSE /\ txns' = [txns EXCEPT ![c].pc = pc,
                                    ![c].put = @ \cup st.put,
                                    ![c].del = @ \cup st.del,
                                    ![c].s = @ \cup st.s]
            /\ UNCHANGED reports
    /\ UNCHANGED <<folders, files, nextFileId, blobs, nextBlobId, disk, pool, cache,
                   last, budget>>

Insert(c) ==
    /\ txns[c].pc = "checked"
    /\ txns[c].op = "createFolder"
    /\ nextFolderId <= MaxFolderId
    /\ nextFolderId' = nextFolderId + 1
    /\ Execute(c, InsertStmt(txns[c]), "written")

UpdateName(c) ==
    /\ txns[c].pc = "checked"
    /\ txns[c].op = "renameFolder"
    /\ Execute(c, UpdateNameStmt(txns[c]), "written")
    /\ UNCHANGED nextFolderId

UpdateParent(c) ==
    /\ txns[c].pc = "checked"
    /\ txns[c].op = "moveFolder"
    /\ Execute(c, UpdateParentStmt(txns[c]), "written")
    /\ UNCHANGED nextFolderId

DeleteSubfolders(c) ==
    /\ txns[c].pc = "checked"
    /\ txns[c].op = "deleteFolder"
    /\ txns[c].ids # {}
    /\ Execute(c, DeleteStmt(txns[c], txns[c].ids), "deleting")
    /\ UNCHANGED nextFolderId

DeleteFolderRow(c) ==
    /\ txns[c].op = "deleteFolder"
    /\ \/ txns[c].pc = "checked" /\ txns[c].ids = {}
       \/ txns[c].pc = "deleting"
    /\ Execute(c, DeleteStmt(txns[c], {txns[c].folderId}), "written")
    /\ UNCHANGED nextFolderId

\* The statement the transaction on connection c runs next.
NextStmt(t) ==
    CASE t.op = "createFolder" -> InsertStmt(t)
      [] t.op = "renameFolder" -> UpdateNameStmt(t)
      [] t.op = "moveFolder" -> UpdateParentStmt(t)
      [] t.op = "deleteFolder" ->
            IF t.pc = "checked" /\ t.ids # {}
            THEN DeleteStmt(t, t.ids)
            ELSE DeleteStmt(t, {t.folderId})
      [] t.op = "uploadFile" -> InsertFileStmt(t)

\* A waiting statement is ended by the server (lock wait timeout, or the
\* transaction is chosen as the victim of a deadlock); the query throws.
LockWaitTimeout(c) ==
    /\ txns[c].pc \in {"checked", "deleting"}
    /\ Waits(c, NextStmt(txns[c]))
    /\ Abort(c)
    /\ UNCHANGED <<storeVars, blobs, nextBlobId, disk, pool, cache, last, budget>>

\* The keys the handler of transaction t clears.
ClearedKeys(t) ==
    CASE t.op = "createFolder" -> CreateFolderKeys(t.userId, t.parentId)
      [] t.op = "renameFolder" ->
            RenameFolderKeys(t.userId, t.folderId, t.snapParent)
      [] t.op = "moveFolder" ->
            MoveFolderKeys(t.userId, t.folderId, t.snapParent, t.parentId)
      [] t.op = "deleteFolder" ->
            DeleteFolderKeys(t.userId, t.folderId, t.snapParent)
      [] t.op = "uploadFile" -> UploadFileKeys(t.userId, t.parentId)

\* The handler clears its cache keys; its transaction is still open.
ClearCaches(c) ==
    LET t == txns[c]
    IN /\ t.pc = "written"
       /\ cache' = IF t.op = "uploadFile"
                   THEN CacheDeleteAll(cache, ClearedKeys(t))
                   ELSE CacheDeleteByPattern(
                            CacheDeleteAll(cache, ClearedKeys(t)),
                            "user:folder_tree", t.userId)
       /\ txns' = [txns EXCEPT ![c].pc = "cleared"]
       /\ UNCHANGED <<storeVars, blobs, nextBlobId, disk, pool, last, budget, reports>>

\* The handler commits and returns success.
Commit(c) ==
    LET t == txns[c]
        gone == t.del \cup RowIds(t.put)
    IN /\ t.pc = "cleared"
       /\ folders' = {f \in folders : f.folder_id \notin gone} \cup t.put
       /\ files' = {x \in files : x.folder_id \notin t.del} \cup t.putFiles
       /\ txns' = [txns EXCEPT ![c] = Idle]
       /\ reports' = [reports EXCEPT ![c] = Report(t, TRUE, ErrNone)]
       /\ UNCHANGED <<nextFolderId, nextFileId, blobs, nextBlobId, disk, pool, cache,
                      last, budget>>

NextConc ==
    \/ \E c \in Conns, u \in ConcUsers, n \in Names,
          p \in FolderIds \cup {Null} : StartCreateFolder(c, u, n, p)
    \/ \E c \in Conns, u \in ConcUsers, f \in FolderIds, n \in Names :
          StartRenameFolder(c, u, f, n)
    \/ \E c \in Conns, u \in ConcUsers, f \in FolderIds,
          p \in FolderIds \cup {Null} : StartMoveFolder(c, u, f, p)
    \/ \E c \in Conns, u \in ConcUsers, f \in FolderIds :
          StartDeleteFolder(c, u, f)
    \/ \E c \in Conns : Insert(c)
    \/ \E c \in Conns : UpdateName(c)
    \/ \E c \in Conns : UpdateParent(c)
    \/ \E c \in Conns : DeleteSubfolders(c)
    \/ \E c \in Conns : DeleteFolderRow(c)
    \/ \E c \in Conns : LockWaitTimeout(c)
    \/ \E c \in Conns : ClearCaches(c)
    \/ \E c \in Conns : Commit(c)

SpecConc == InitConc /\ [][NextConc]_vars

\* ------------------------------------------------------------------------
\* SpecRefs: createFolder, moveFolder, uploadFile and deleteFolder of one
\* owner interleaved as in SpecConc, with file rows.  uploadFile saves its
\* blob before its INSERT; deleteFolder first awaits deleteFile for each
\* file row of the folder, each on a connection and transaction of its own
\* that commits before deleteFolder goes on.
\* ------------------------------------------------------------------------
\* uploadFile: beginTransaction, saveFile; no SELECT precedes the INSERT.
StartUploadFile(c, userId, name, folderId, data) ==
    LET row == FileRow(Null, userId, folderId, name,
                       BlobPath(userId, nextBlobId), data)
        t == [Txn("idle", "uploadFile", userId, Null, name, folderId, Null,
                  {}) EXCEPT !.putFiles = {row}]
    IN /\ nextBlobId <= MaxBlobId
       /\ Begin(c, t, ErrNone)
       /\ blobs' = SaveFile(blobs, userId, nextBlobId, data)
       /\ nextBlobId' = nextBlobId + 1
       /\ UNCHANGED <<storeVars, disk, pool, cache, last>>

\* Another transaction holds the unique_file index entry the INSERT needs.
FileKeyLocked(c, t) ==
    \E o \in Holders(c) : \E r \in txns[o].putFiles, q \in t.putFiles :
        /\ q.folder_id # Null
        /\ r.user_id = q.user_id
        /\ r.folder_id = q.folder_id
        /\ r.name = q.name

InsertFile(c) ==
    LET t == txns[c]
        st == InsertFileStmt(t)
    IN /\ t.pc = "checked"
       /\ t.op = "uploadFile"
       /\ nextFileId <= MaxFileId
       /\ ~Waits(c, st)
       /\ ~FileKeyLocked(c, t)
       /\ nextFileId' = nextFileId + 1
       /\ IF st.error
          THEN Abort(c)
          ELSE /\ txns' = [txns EXCEPT
                              ![c].pc = "written",
                              ![c].s = @ \cup st.s,
                              ![c].putFiles =
                                  {[r EXCEPT !.file_id = nextFileId] :
                                      r \in t.putFiles}]
               /\ UNCHANGED reports
       /\ UNCHANGED <<folders, files, nextFolderId, blobs, nextBlobId, disk,
                      pool, cache, last, budget>>

\* deleteFolder up to its first DELETE: the folder SELECT, the deleteFile
\* calls for the file rows of the folder, and the subfolder traversal.
StartDeleteFolderFiles(c, userId, folderId) ==
    LET verdict == DeleteCheck(folders, userId, folderId)
        fileIds == SortedIds({x.file_id :
                                 x \in {y \in files : y.folder_id = folderId}})
        st1 == IF verdict = ErrFolderNotFound THEN State
               ELSE DeleteFilesLoop(State, userId, fileIds, TRUE)
    IN /\ Begin(c, Txn("idle", "deleteFolder", userId, folderId, NoName, Null,
                       SnapParent(folders, userId, folderId),
                       SeqToSet(GetSubfolderIds(folders, folderId,
                                                Cardinality(folders)).ids)),
                verdict)
       /\ files' = st1.files
       /\ blobs' = st1.blobs
       /\ cache' = st1.cache
       /\ UNCHANGED <<folders, nextFolderId, nextFileId, nextBlobId, disk,
                      pool, last>>

RefNames == {"a"}

NextRefs ==
    \/ \E c \in Conns, u \in ConcUsers, n \in RefNames,
          p \in FolderIds \cup {Null} : StartCreateFolder(c, u, n, p)
    \/ \E c \in Conns, u \in ConcUsers, f \in FolderIds,
          p \in FolderIds \cup {Null} : StartMoveFolder(c, u, f, p)
    \/ \E c \in Conns, u \in ConcUsers, n \in RefNames,
          f \in FolderIds \cup {Null}, d \in Bytes :
          StartUploadFile(c, u, n, f, d)
    \/ \E c \in Conns, u \in ConcUsers, f \in FolderIds :
          StartDeleteFolderFiles(c, u, f)
    \/ \E c \in Conns : Insert(c)
    \/ \E c \in Conns : UpdateParent(c)
    \/ \E c \in Conns : InsertFile(c)
    \/ \E c \in Conns : DeleteSubfolders(c)
    \/ \E c \in Conns : DeleteFolderRow(c)
    \/ \E c \in Conns : LockWaitTimeout(c)
    \/ \E c \in Conns : ClearCaches(c)
    \/ \E c \in Conns : Commit(c)

SpecRefs == InitConc /\ [][NextRefs]_vars

\* ------------------------------------------------------------------------
\* Properties
\* ------------------------------------------------------------------------
\* F and every folder below it, by the stored parent pointers.
SubtreeIds(fs, F) == CascadeClosure(fs, {F})

Owns(fs, userId, F) == \E f \in fs : f.folder_id = F /\ f.user_id = userId

\* C1: in every reachable forest, moveFolder(owner, F, D) with D = F or D
\* any descendant of F returns a failure (without a store fault: one of the
\* two InvalidOperation messages) and leaves every folder row and file row
\* as it was.
C1_MoveIntoOwnSubtreeRejected ==
    \A u \in Users, F \in FolderIds, D \in FolderIds, ft \in UpdateFaults :
        (Owns(folders, u, F) /\ D \in SubtreeIds(folders, F))
        => LET out == MoveFolder(State, u, F, D, ft)
           IN /\ out.returns
              /\ ~out.res.success
              /\ out.folders = folders
              /\ out.files = files
              /\ ft = "none"
                    => out.res.error \in {ErrMoveSelf, ErrMoveSubfolder}

\* A move was refused as a move into the own subtree while the forest holds
\* a chain of depth two (a folder, its child and its grandchild).
C1_Witness ==
    /\ last.error = ErrMoveSubfolder
    /\ \E f, g, h \in folders : /\ g.parent_folder_id = f.folder_id
                                /\ h.parent_folder_id = g.folder_id

\* C3: no two folder rows of one owner under the same parent (the root
\* included) have the same name.
C3_SiblingNamesUnique ==
    \A f, g \in folders :
        (/\ f.folder_id # g.folder_id
         /\ f.user_id = g.user_id
         /\ f.parent_folder_id = g.parent_folder_id)
        => f.name # g.name

\* A move to the root was refused because the root already holds the name.
C3_Witness ==
    /\ last.error = ErrMoveExists
    /\ \E f, g \in folders : /\ f.name = g.name
                             /\ f.user_id = g.user_id
                             /\ f.parent_folder_id = Null
                             /\ g.parent_folder_id # Null
                             /\ \A h \in folders :
                                   h.folder_id # g.parent_folder_id
                                   \/ h.name # g.name

\* C6: no two file rows of one owner in the same place (a folder, or the
\* root with folder id NULL) have the same name.
C6_FileNamesUnique ==
    \A x, y \in files :
        (/\ x.file_id # y.file_id
         /\ x.user_id = y.user_id
         /\ x.folder_id = y.folder_id)
        => x.name # y.name

\* C7: when deleteFolder(owner, F) returns success, no folder row is left
\* for F or for a folder that was below F, no remaining folder row has one
\* of them as its parent, and no file row has one of them as its folder.
C7_DeleteFolderRemovesSubtree ==
    \A u \in Users, F \in FolderIds, ft \in FolderFileFaults :
        LET out == DeleteFolder(State, u, F, ft[1], ft[2])
            sub == SubtreeIds(folders, F)
        IN (out.returns /\ out.res.success)
           => /\ \A f \in out.folders : /\ f.folder_id \notin sub
                                        /\ f.parent_folder_id \notin sub
              /\ \A x \in out.files : x.folder_id \notin sub

\* A deleteFolder returned success after removing the folder, at least one
\* folder below it and a file row that sat in a folder below it.
C7_Witness ==
    /\ last.op = "deleteFolder"
    /\ last.success
    /\ last.folderRows >= 2
    /\ last.fileRows >= 1

\* C8: a deleteFolder call that returns failure leaves the folder rows and
\* the file rows exactly as they were before the call.
C8_DeleteFolderAllOrNothing ==
    [][(last'.op = "deleteFolder" /\ ~last'.success)
          => (folders' = folders /\ files' = files)]_vars

\* C9: after a successful deleteFolder(owner, F) with a working blob store,
\* no blob is left on disk for a file that was in F or in a folder below F.
C9_DeleteFolderRemovesBlobs ==
    [][\A u \in Users, F \in FolderIds :
          (/\ last'.op = "deleteFolder"
           /\ last'.success
           /\ DoDeleteFolder(u, F, "none", TRUE))
          => \A x \in files :
                x.folder_id \in SubtreeIds(folders, F)
                => ~BlobExists(blobs', x.file_path)]_vars

\* The folder is reached from itself by following parent pointers.
OwnAncestor(fs, F) == F \in CascadeClosure(fs, ChildIds(fs, F))

\* C2: whatever the interleaving of createFolder, renameFolder, moveFolder
\* and deleteFolder transactions, no committed folder is its own ancestor.
C2_ForestAcyclic ==
    \A f \in folders : ~OwnAncestor(folders, f.folder_id)

\* Both connections hold the result of a call to `op`, and the two calls
\* overlapped in time with each other and with no third call.
ConcurrentPair(op) ==
    /\ reports[1].op = op /\ reports[1].overlaps = 1
    /\ reports[2].op = op /\ reports[2].overlaps = 1

\* Of two results not both are successes, and where one is a success the
\* other is the failure `conflict`.
OneWinner(r1, r2, conflict) ==
    /\ ~(r1.success /\ r2.success)
    /\ r1.success => r2.error = conflict
    /\ r2.success => r1.error = conflict

\* C4: two createFolder calls of one owner that ran concurrently with the
\* same name under the same parent (a folder or the root) end as one
\* success and one "Folder already exists", and the store never holds two
\* folders of that name under that parent.
C4_ConcurrentCreateOneWinner ==
    (/\ ConcurrentPair("createFolder")
     /\ reports[1].userId = reports[2].userId
     /\ reports[1].name = reports[2].name
     /\ reports[1].parentId = reports[2].parentId)
    => /\ OneWinner(reports[1], reports[2], ErrFolderExists)
       /\ Cardinality(CreateExisting(folders, reports[1].userId,
                                     reports[1].name,
                                     reports[1].parentId)) <= 1

\* C5: two renameFolder calls that ran concurrently and give two existing
\* sibling folders of one owner the same new name end as one success and
\* one "A folder with this name already exists", and the two folders never
\* carry the same name under one parent.
C5_ConcurrentRenameOneWinner ==
    (/\ ConcurrentPair("renameFolder")
     /\ reports[1].userId = reports[2].userId
     /\ reports[1].name = reports[2].name
     /\ reports[1].folderId # reports[2].folderId
     /\ reports[1].error # ErrFolderNotFound
     /\ reports[2].error # ErrFolderNotFound
     /\ reports[1].snapParent = reports[2].snapParent)
    => /\ OneWinner(reports[1], reports[2], ErrRenameExists)
       /\ \A f, g \in folders :
             (/\ f.folder_id = reports[1].folderId
              /\ g.folder_id = reports[2].folderId
              /\ f.parent_folder_id = g.parent_folder_id)
             => f.name # g.name

\* What a read answers: whether it succeeded, and the data it returned.
Answer(r) == <<r.res.success, r.data>>

Mutations == {"createFolder", "renameFolder", "moveFolder", "deleteFolder",
              "uploadFile", "deleteFile"}

\* C10: once a mutating call has returned success, every cache-backed read
\* answers what it would answer from the store alone (an empty cache),
\* whatever reads filled the cache before.
C10_ReadAfterWriteCoherent ==
    (last.op \in Mutations /\ last.success)
    => \A u \in CacheUsers :
          /\ \A f \in FolderIds :
                Answer(GetFolderDetails(cache, folders, u, f))
                = Answer(GetFolderDetails(EmptyCache, folders, u, f))
          /\ \A i \in FileIds :
                Answer(GetFileDetails(cache, files, u, i))
                = Answer(GetFileDetails(EmptyCache, files, u, i))
          /\ Answer(GetFolderTree(cache, folders, u))
             = Answer(GetFolderTree(EmptyCache, folders, u))
          /\ \A f \in FolderIds \cup {Null} :
                /\ Answer(GetSubfolders(cache, folders, u, f))
                   = Answer(GetSubfolders(EmptyCache, folders, u, f))
                /\ Answer(GetFilesInFolder(cache, files, u, f))
                   = Answer(GetFilesInFolder(EmptyCache, files, u, f))
                /\ Answer(GetFolderContents(cache, folders, files, u, f))
                   = Answer(GetFolderContents(EmptyCache, folders, files,
                                              u, f))

\* The writes of transaction t are in the committed rows.
Committed(t) ==
    /\ t.put \subseteq folders
    /\ \A f \in folders : f.folder_id \notin t.del

\* C11: a handler clears cache keys only after its transaction has
\* committed: whenever the keys of a transaction have been cleared, the
\* rows it wrote are committed.
C11_InvalidationAfterCommit ==
    \A c \in Conns : txns[c].pc = "cleared" => Committed(txns[c])

\* The folder F is an entry of the contents list `data`.
ListsFolder(data, F) == \E i \in 1..Len(data) : data[i].nodeId = <<"", F>>

\* C12: when deleteFolder(owner, F) returns success for a root-level folder
\* F that held files, getFolderContents(owner, root) no longer lists F and
\* getFileDetails of each of those files returns "File not found",
\* whatever was read, and so cached, before.
C12_DeletedFolderGoneFromReads ==
    [][\A u \in CacheUsers, F \in FolderIds :
          (/\ DoDeleteFolder(u, F, "none", TRUE)
           /\ last'.success
           /\ \E f \in folders : /\ f.folder_id = F
                                 /\ f.parent_folder_id = Null
           /\ \E x \in files : x.folder_id = F)
          => /\ ~ListsFolder(GetFolderContents(cache', folders', files',
                                               u, Null).data, F)
             /\ \A x \in files :
                   x.folder_id = F
                   => GetFileDetails(cache', files', u, x.file_id).res
                      = Fail("getFileDetails", ErrFileNotFound)]_vars

\* The nodes of a tree in preorder, each with the id of the node whose
\* child list holds it (Null at the top level).
RECURSIVE Flatten(_, _)
Flatten(nodes, parentId) ==
    IF nodes = <<>> THEN <<>>
    ELSE <<[id |-> Head(nodes).id, under |-> parentId]>>
         \o Flatten(Head(nodes).sub_classifications, Head(nodes).id)
         \o Flatten(Tail(nodes), parentId)

FlatTree(u) == Flatten(GetFolderTree(EmptyCache, folders, u).data, Null)

\* C13: on a cache miss, getFolderTree(owner), flattened, holds exactly the
\* ids of the owner's folders, each once, each in the child list of the
\* node of its stored parent (root-level folders at the top level).
C13_FolderTreeExact ==
    \A u \in Users :
        LET flat == FlatTree(u)
            own == {f \in folders : f.user_id = u}
        IN /\ {flat[i].id : i \in 1..Len(flat)} = {f.folder_id : f \in own}
           /\ Len(flat) = Cardinality(own)
           /\ \A i \in 1..Len(flat) :
                 \E f \in own : /\ f.folder_id = flat[i].id
                                /\ f.parent_folder_id = flat[i].under

\* Two owners hold folders, and one tree has a node below the top level.
C13_Witness ==
    /\ \A u \in Users : Len(FlatTree(u)) >= 1
    /\ \E u \in Users :
          \E i \in 1..Len(FlatTree(u)) : FlatTree(u)[i].under # Null

\* What downloadFile returns for each file row of `fl`, by file id.
Downloads(fl, bl) ==
    [i \in {x.file_id : x \in fl} |->
        LET x == CHOOSE y \in fl : y.file_id = i
        IN DownloadFile(fl, bl, x.user_id, i)]

C15_RenameToSiblingNameRejected ==
    \A u \in Users, X \in FolderIds, n \in Names, ft \in UpdateFaults :
        (\E x, y \in folders : /\ x.folder_id = X
                               /\ x.user_id = u
                               /\ y.folder_id # X
                               /\ y.user_id = u
                               /\ y.parent_folder_id = x.parent_folder_id
                               /\ y.name = n)
        => LET out == RenameFolder(State, u, X, n, ft)
           IN /\ out.returns
              /\ ~out.res.success
              /\ out.folders = folders
              /\ out.files = files
              /\ ft = "none" => out.res.error = ErrRenameExists

\* A rename was refused for the name of a sibling, at the root level.
C15_Witness ==
    /\ last.op = "renameFolder"
    /\ last.error = ErrRenameExists
    /\ \A f \in folders : f.parent_folder_id = Null
    /\ Cardinality(folders) >= 2

\* C18: createFolder and renameFolder given a name that validateFolderName
\* refuses (empty, longer than 255 characters, or holding one of
\* / \ : * ? " < > |) return a failure, insert or update no folder row and
\* invalidate no cache key.
C18_InvalidNameRejected ==
    \A u \in CacheUsers, n \in FolderNameInputs :
        ~ValidateFolderName(n) =>
            /\ \A p \in FolderIds \cup {Null} :
                   LET out == CreateFolder(State, u, n, p, "none")
                   IN /\ ~out.res.success
                      /\ out.folders = folders
                      /\ out.cache = cache
            /\ \A X \in FolderIds :
                   LET out == RenameFolder(State, u, X, n, "none")
                   IN /\ ~out.res.success
                      /\ out.folders = folders
                      /\ out.cache = cache

\* A folder row carries a name that validateFolderName refuses.
C18_Witness ==
    /\ last.success
    /\ \E f \in folders : ~ValidateFolderName(f.name)

\* The folder / file of that id is a row of another owner than userId.
ForeignFolder(userId, id) ==
    \E f \in folders : f.folder_id = id /\ f.user_id # userId

ForeignFile(userId, id) ==
    \E f \in files : f.file_id = id /\ f.user_id # userId

\* C16: getFileDetails, getFolderDetails, getSubfolders, getFilesInFolder
\* and getFolderContents called by an owner never return a folder or a file
\* of another owner, whatever the other owner's reads left in the cache.
C16_ReadsOwnerIsolated ==
    \A B \in Users :
        /\ \A i \in FileIds :
               LET r == GetFileDetails(cache, files, B, i)
               IN r.res.success => ~ForeignFile(B, r.data[1].id)
        /\ \A f \in FolderIds :
               LET r == GetFolderDetails(cache, folders, B, f)
               IN r.res.success => ~ForeignFolder(B, r.data[1].id)
        /\ \A f \in FolderIds \cup {Null} :
               /\ LET r == GetSubfolders(cache, folders, B, f)
                  IN \A k \in 1..Len(r.data) : ~ForeignFolder(B, r.data[k].id)
               /\ LET r == GetFilesInFolder(cache, files, B, f)
                  IN \A k \in 1..Len(r.data) : ~ForeignFile(B, r.data[k].id)
               /\ LET r == GetFolderContents(cache, folders, files, B, f)
                  IN \A k \in 1..Len(r.data) :
                         IF r.data[k].nodeId[1] = "file-"
                         THEN ~ForeignFile(B, r.data[k].id)
                         ELSE ~ForeignFolder(B, r.data[k].id)

\* An owner's read of a folder's details was answered with another
\* owner's folder.
C16_Witness ==
    /\ last.op = "getFolderDetails"
    /\ last.success
    /\ \E B \in Users, f \in FolderIds :
           /\ ForeignFolder(B, f)
           /\ GetFolderDetails(cache, folders, B, f).res.success

\* The handler's outcome left every folder row, file row and blob alone.
Untouched(out) ==
    /\ out.returns
    /\ out.folders = folders
    /\ out.files = files
    /\ out.blobs = blobs

\* C17: renameFolder, moveFolder (for the moved folder and for the
\* destination parent), deleteFolder, createFolder (for the parent),
\* downloadFile and deleteFile, given an id that does not exist or belongs
\* to another owner, return a not-found failure and leave every folder row,
\* file row and blob unchanged.
C17_MissingOrForeignIdNotFound ==
    \A u \in Users :
        /\ \A F \in FolderIds :
               ~Owns(folders, u, F) =>
                   /\ LET out == RenameFolder(State, u, F, "b", "none")
                      IN /\ out.res = Fail("renameFolder", ErrFolderNotFound)
                         /\ Untouched(out)
                   /\ \A p \in FolderIds \cup {Null} :
                          LET out == MoveFolder(State, u, F, p, "none")
                          IN /\ out.res = Fail("moveFolder", ErrFolderNotFound)
                             /\ Untouched(out)
                   /\ \A X \in FolderIds :
                          Owns(folders, u, X) =>
                              LET out == MoveFolder(State, u, X, F, "none")
                              IN /\ out.res = Fail("moveFolder",
                                                   ErrNewParentNotFound)
                                 /\ Untouched(out)
                   /\ LET out == DeleteFolder(State, u, F, "none", TRUE)
                      IN /\ out.res = Fail("deleteFolder", ErrFolderNotFound)
                         /\ Untouched(out)
                   /\ \A n \in Names :
                          LET out == CreateFolder(State, u, n, F, "none")
                          IN /\ out.res = Fail("createFolder",
                                               ErrParentNotFound)
                             /\ Untouched(out)
        /\ \A i \in FileIds :
               (\A f \in files : f.file_id = i => f.user_id # u) =>
                   /\ LET r == DownloadFile(files, blobs, u, i)
                      IN ~r.success /\ r.error = ErrFileNotFound
                   /\ LET out == DeleteFile(State, u, i, "none", TRUE)
                      IN /\ out.res = Fail("deleteFile", ErrFileNotFound)
                         /\ Untouched(out)

\* A handler was refused with a not-found failure while both owners hold a
\* folder and some owner holds a file with its blob.
C17_Witness ==
    /\ last.op \in {"renameFolder", "moveFolder", "deleteFolder",
                    "createFolder", "deleteFile", "downloadFile"}
    /\ last.error \in {ErrFolderNotFound, ErrNewParentNotFound,
                       ErrParentNotFound, ErrFileNotFound}
    /\ \A u \in Users : \E f \in folders : f.user_id = u
    /\ \E f \in files : BlobExists(blobs, f.file_path)

UploadFaults == {"none", "begin", "write", "commit", "reread"}

\* C19: whatever uploadFile does, a file row it inserts has a storage path
\* at which the blob store holds the uploaded bytes; and when saveFile
\* fails, uploadFile returns a failure and inserts no file row, the folder
\* rows and file rows staying as they were.
C19_BlobWrittenBeforeRow ==
    \A u \in Users, f \in FolderIds \cup {Null}, d \in BlobBytes,
       ft \in UploadFaults, diskOk \in BOOLEAN :
        LET out == UploadFile(State, u, "a", f, d, ft, diskOk)
        IN /\ \A r \in out.files \ files :
                  \E b \in out.blobs : b.path = r.file_path /\ b.data = d
           /\ ~diskOk => /\ out.returns
                         /\ out.res = Fail("uploadFile", ErrUploadFailed)
                         /\ out.files = files
                         /\ out.folders = folders
                         /\ out.nextFileId = nextFileId

\* An upload failed at the save step: uploadFile returned a failure and no
\* blob has been written yet, in a store that holds a folder.
C19_Witness ==
    /\ last = Fail("uploadFile", ErrUploadFailed)
    /\ nextBlobId = 1
    /\ blobs = {}
    /\ folders # {}

\* C20: for every outcome of deleteFile (success, a blob-delete failure, a
\* store failure followed by rollback), no file row that remains has lost
\* the blob at its storage path to the call.
C20_DeleteNeverLeavesRowWithoutBlob ==
    \A u \in Users, i \in FileIds, ft \in BlobFaults :
        LET out == DeleteFile(State, u, i, ft[1], ft[2])
        IN \A r \in out.files :
               BlobExists(blobs, r.file_path)
                   => BlobExists(out.blobs, r.file_path)

\* deleteFile failed and rolled back, and the row it kept has no blob.
C20_Witness ==
    /\ last = Fail("deleteFile", ErrDeleteFileFailed)
    /\ \E r \in files : ~BlobExists(blobs, r.file_path)

\* C21: when the blob store refuses to delete the file's blob, deleteFile
\* of an owner's file still removes the file row (and no other row),
\* returns success and leaves the blob store as it was: the blob stays
\* behind as an orphan.
C21_BlobDeleteFailureIgnored ==
    \A u \in Users, i \in FileIds :
        \A r \in {f \in files : f.file_id = i /\ f.user_id = u} :
            LET out == DeleteFile(State, u, i, "none", FALSE)
            IN /\ out.returns
               /\ out.res = Ok("deleteFile")
               /\ out.files = files \ {r}
               /\ out.folders = folders
               /\ out.blobs = blobs

\* The one file uploaded so far was deleted with success and its blob is
\* still in the blob store.
C21_Witness ==
    /\ last = Ok("deleteFile")
    /\ nextFileId = 2
    /\ nextBlobId = 2
    /\ files = {}
    /\ blobs # {}

RECURSIVE Attempts(_, _, _, _)
\* Whether each file's own uploadFile call succeeds, the calls made one
\* after the other in input order.
Attempts(st, userId, fileList, folderId) ==
    IF fileList = <<>> THEN <<>>
    ELSE LET file == Head(fileList)
             result == UploadFile(st, userId, file.name, folderId, file.data,
                                  file.fault, file.diskOk)
         IN <<result.res.success>>
                \o Attempts(result, userId, Tail(fileList), folderId)

\* The names of the input files whose attempt ended as `success`, in
\* input order.
NamesWhere(fileList, oks, success) ==
    LET idx == SelectSeq([i \in 1..Len(fileList) |-> i],
                         LAMBDA i : oks[i] = success)
    IN [k \in 1..Len(idx) |-> fileList[idx[k]].name]

\* C22: uploadMultipleFiles attempts every file of its input once, in input
\* order, whatever failed before: uploadedFiles holds the files whose own
\* uploadFile attempt succeeded and failedFiles the others, each in input
\* order, and together they have as many entries as the input.
C22_EveryFileAttemptedOnce ==
    \A u \in FileUsers, fl \in BatchInputs, f \in FolderIds \cup {Null} :
        LET out == UploadMultipleFiles(State, u, fl, f)
            oks == Attempts(State, u, fl, f)
        IN /\ out.st.res = Ok("uploadMultipleFiles")
           /\ Len(out.uploadedFiles) + Len(out.failedFiles) = Len(fl)
           /\ [k \in 1..Len(out.uploadedFiles) |-> out.uploadedFiles[k].name]
                  = NamesWhere(fl, oks, TRUE)
           /\ [k \in 1..Len(out.failedFiles) |-> out.failedFiles[k].name]
                  = NamesWhere(fl, oks, FALSE)

\* A first batch ended with one file stored and two blobs written: one of
\* its uploads succeeded and another failed after its blob was saved.
C22_Witness ==
    /\ last = Ok("uploadMultipleFiles")
    /\ Cardinality(files) = 1
    /\ nextFileId = 3
    /\ nextBlobId = 3

\* What a handler did to the stores and what it returned.
Effect(out) ==
    [returns |-> out.returns, res |-> out.res, folders |-> out.folders,
     files |-> out.files, blobs |-> out.blobs]

\* The ids listed by a read.
ListedIds(data) == {data[k].id : k \in 1..Len(data)}

\* C23: with Redis unreachable no handler fails because of it: each
\* mutating handler returns what it returns, and does to the folder rows,
\* file rows and blobs what it does, with Redis reachable; each read returns
\* what the metadata store holds, whatever the cache held before.
C23_CacheFailureHarmless ==
    \A u \in CacheUsers :
        /\ \A n \in Names, p \in FolderIds \cup {Null} :
               Effect(CacheUnavailable(State,
                          CreateFolder(CacheDown(State), u, n, p, "none")))
                   = Effect(CreateFolder(State, u, n, p, "none"))
        /\ \A f \in FolderIds :
               /\ \A n \in Names :
                      Effect(CacheUnavailable(State,
                                 RenameFolder(CacheDown(State), u, f, n,
                                              "none")))
                          = Effect(RenameFolder(State, u, f, n, "none"))
               /\ \A p \in FolderIds \cup {Null} :
                      Effect(CacheUnavailable(State,
                                 MoveFolder(CacheDown(State), u, f, p,
                                            "none")))
                          = Effect(MoveFolder(State, u, f, p, "none"))
               /\ Effect(CacheUnavailable(State,
                             DeleteFolder(CacheDown(State), u, f, "none",
                                          TRUE)))
                      = Effect(DeleteFolder(State, u, f, "none", TRUE))
               /\ LET r == ReadUnavailable(cache,
                               GetFolderDetails(EmptyCache, folders, u, f))
                  IN IF Owns(folders, u, f)
                     THEN r.res = Ok("getFolderDetails") /\ r.data[1].id = f
                     ELSE r.res = Fail("getFolderDetails", ErrFolderNotFound)
        /\ \A f \in FolderIds \cup {Null} :
               /\ \A d \in Bytes :
                      Effect(CacheUnavailable(State,
                                 UploadFile(CacheDown(State), u, "a", f, d,
                                            "none", TRUE)))
                          = Effect(UploadFile(State, u, "a", f, d, "none",
                                              TRUE))
               /\ LET r == ReadUnavailable(cache,
                               GetSubfolders(EmptyCache, folders, u, f))
                  IN /\ r.res = Ok("getSubfolders")
                     /\ ListedIds(r.data)
                            = {x.folder_id : x \in
                                  {y \in folders : /\ y.user_id = u
                                                   /\ y.parent_folder_id = f}}
               /\ LET r == ReadUnavailable(cache,
                               GetFilesInFolder(EmptyCache, files, u, f))
                  IN /\ r.res = Ok("getFilesInFolder")
                     /\ ListedIds(r.data)
                            = {x.file_id : x \in
                                  {y \in files : /\ y.user_id = u
                                                 /\ y.folder_id = f}}
               /\ LET r == ReadUnavailable(cache,
                               GetFolderContents(EmptyCache, folders, files,
                                                 u, f))
                  IN /\ r.res = Ok("getFolderContents")
                     /\ {r.data[k].nodeId : k \in 1..Len(r.data)}
                            = {<<"", x.folder_id>> : x \in
                                  {y \in folders : /\ y.user_id = u
                                                   /\ y.parent_folder_id = f}}
                              \cup
                              {<<"file-", x.file_id>> : x \in
                                  {y \in files : /\ y.user_id = u
                                                 /\ y.folder_id = f}}
        /\ \A i \in FileIds :
               /\ Effect(CacheUnavailable(State,
                             DeleteFile(CacheDown(State), u, i, "none", TRUE)))
                      = Effect(DeleteFile(State, u, i, "none", TRUE))
               /\ LET r == ReadUnavailable(cache,
                               GetFileDetails(EmptyCache, files, u, i))
                  IN r.res.success
                         <=> \E x \in files : x.file_id = i /\ x.user_id = u

\* createFolder put folder 2 under folder 1 with success while the cached
\* subfolder list of folder 1 stayed in the cache: Redis was unreachable
\* during the call.
C23_Witness ==
    /\ last = Ok("createFolder")
    /\ nextFolderId = 3
    /\ \E x \in folders : x.folder_id = 2 /\ x.parent_folder_id = 1
    /\ CacheHas(cache, Key("folder:subfolders", 1))

\* C24: a successful moveFolder(owner, F, D) replaces F's row by the same
\* row with parent D and changes nothing else: every other folder row (F's
\* descendants included), every file row and every blob is as before.
C24_MoveChangesOnlyParent ==
    \A u \in Users, F \in FolderIds, D \in FolderIds \cup {Null} :
        LET out == MoveFolder(State, u, F, D, "none")
        IN (out.returns /\ out.res.success) =>
               \E x \in folders :
                   /\ x.folder_id = F
                   /\ x.user_id = u
                   /\ out.folders = (folders \ {x})
                          \cup {[x EXCEPT !.parent_folder_id = D]}
                   /\ out.files = files
                   /\ out.blobs = blobs

\* A folder that holds a subfolder was moved under another folder.
C24_Witness ==
    /\ last = Ok("moveFolder")
    /\ \E x, y \in folders : /\ x.parent_folder_id # Null
                             /\ y.parent_folder_id = x.folder_id
    /\ Cardinality({x \in folders : x.parent_folder_id = Null}) = 1
    /\ nextFolderId = 4
    /\ files # {}

\* Another folder of the owner than F that has F's name and parent D.
NameTakenAt(u, F, D) ==
    \E x, y \in folders : /\ x.folder_id = F
                          /\ y.folder_id # F
                          /\ y.user_id = u
                          /\ y.name = x.name
                          /\ y.parent_folder_id = D

\* C25: moveFolder(owner, F, D), F a folder of the owner and D the root or
\* a folder of the owner outside F's subtree, returns "A folder with this
\* name already exists in the destination" and leaves the folder rows as
\* they were when another folder of the owner with F's name has parent D,
\* and succeeds when there is none.
C25_MoveConflictOnlyOnSiblingName ==
    \A u \in Users, F \in FolderIds, D \in FolderIds \cup {Null} :
        (/\ Owns(folders, u, F)
         /\ D # Null => Owns(folders, u, D)
         /\ D \notin SubtreeIds(folders, F))
        => LET out == MoveFolder(State, u, F, D, "none")
           IN /\ out.returns
              /\ IF NameTakenAt(u, F, D)
                 THEN /\ out.res = Fail("moveFolder", ErrMoveExists)
                      /\ out.folders = folders
                 ELSE out.res = Ok("moveFolder")

\* moveFolder answered that the name exists in the destination while every
\* folder of the owner has a name of its own there.
C25_Witness ==
    /\ last = Fail("moveFolder", ErrMoveExists)
    /\ \A x, y \in folders :
           (x.user_id = y.user_id /\ x.name = y.name
            /\ x.parent_folder_id = y.parent_folder_id) => x = y

\* The owner's root-level folder rows.
RootRows(fs, u) == {f \in fs : f.user_id = u /\ f.parent_folder_id = Null}

\* C26: a successful folder mutation that adds, renames or removes a
\* root-level folder of an owner leaves neither the owner's root subfolder
\* list nor the owner's root contents in the cache.
C26_RootListingsInvalidated ==
    [][\A u \in CacheUsers :
           (/\ last'.success
            /\ RootRows(folders', u) # RootRows(folders, u))
           => /\ ~CacheHas(cache', Key("user:root:subfolders", u))
              /\ ~CacheHas(cache', Key("user:root:contents", u))]_vars

\* createFolder added a root-level folder with success and the cached root
\* subfolder list, still in the cache, does not list it.
C26_Witness ==
    /\ last = Ok("createFolder")
    /\ \A f \in folders : f.parent_folder_id = Null
    /\ \E u \in CacheUsers :
           /\ CacheHas(cache, Key("user:root:subfolders", u))
           /\ ListedIds(cache[Key("user:root:subfolders", u)])
                  # {f.folder_id : f \in RootRows(folders, u)}

\* The ids of the owner's file rows in folder F (Null: the root).
FileIdsIn(fl, u, F) ==
    {x.file_id : x \in {y \in fl : y.user_id = u /\ y.folder_id = F}}

\* The file ids among the entries of a contents list.
ListedFileIds(data) ==
    {data[k].id : k \in {j \in 1..Len(data) : data[j].nodeId[1] = "file-"}}

\* C27: after a successful uploadFile into, or deleteFile from, a folder F
\* of an owner (or the owner's root), getFilesInFolder and getFolderContents
\* for F list exactly the files now stored there, whatever was cached
\* before.
C27_FileListingsFresh ==
    [][\A u \in CacheUsers, F \in FolderIds \cup {Null} :
           (/\ last'.op \in {"uploadFile", "deleteFile"}
            /\ last'.success
            /\ FileIdsIn(files', u, F) # FileIdsIn(files, u, F))
           => /\ ListedIds(GetFilesInFolder(cache', files', u, F).data)
                     = FileIdsIn(files', u, F)
              /\ ListedFileIds(GetFolderContents(cache', folders', files', u,
                                                 F).data)
                     = FileIdsIn(files', u, F)]_vars

\* uploadFile stored a file in a folder with success and the cached file
\* list of that folder, still in the cache, does not list it.
C27_Witness ==
    /\ last = Ok("uploadFile")
    /\ \E u \in CacheUsers, F \in FolderIds :
           /\ CacheHas(cache, Key("folder:files", F))
           /\ ListedIds(cache[Key("folder:files", F)]) = {}
           /\ FileIdsIn(files, u, F) # {}

\* After the outcome `out` of a successful folder mutation of owner u: no
\* tree of u is cached, getFolderTree(u) returns the forest built from the
\* folder rows, and the cached tree of every other owner is as before.
TreeFresh(u, out) ==
    out.res.success =>
        /\ ~CacheHas(out.cache, Key("user:folder_tree", u))
        /\ GetFolderTree(out.cache, out.folders, u).data
               = BuildTree({f \in out.folders : f.user_id = u}, Null)
        /\ \A v \in Users \ {u} :
               LET k == Key("user:folder_tree", v)
               IN CacheHas(cache, k)
                      => CacheHas(out.cache, k) /\ out.cache[k] = cache[k]

\* C28: every successful createFolder, renameFolder, moveFolder and
\* deleteFolder of an owner, run alone, leaves no tree of that owner in the
\* cache, so that the next getFolderTree is the forest rebuilt from the
\* store, and leaves the cached trees of the other owners in place.
C28_TreeCacheInvalidatedPerOwner ==
    \A u \in Users :
        /\ \A n \in Names, p \in FolderIds \cup {Null} :
               TreeFresh(u, CreateFolder(State, u, n, p, "none"))
        /\ \A f \in FolderIds :
               /\ \A n \in Names :
                      TreeFresh(u, RenameFolder(State, u, f, n, "none"))
               /\ \A p \in FolderIds \cup {Null} :
                      TreeFresh(u, MoveFolder(State, u, f, p, "none"))
               /\ TreeFresh(u, DeleteFolder(State, u, f, "none", TRUE))

\* Owner 1 deleted the only folder there was, after owner 2's tree had been
\* cached: owner 2's tree is still in the cache and owner 1's is not.
C28_Witness ==
    /\ last.op = "deleteFolder"
    /\ last.success
    /\ nextFolderId = 2
    /\ folders = {}
    /\ CacheHas(cache, Key("user:folder_tree", 2))
    /\ ~CacheHas(cache, Key("user:folder_tree", 1))

\* C29: on every committed folder relation, cyclic ones included, the
\* descendant check of moveFolder and the descendant enumeration of
\* deleteFolder come to an end: both handlers return.
C29_TraversalsTerminate ==
    \A u \in ConcUsers, F \in FolderIds :
        /\ DeleteFolder(State, u, F, "none", TRUE).returns
        /\ \A D \in FolderIds : MoveFolder(State, u, F, D, "none").returns

\* The committed rows hold a cycle, and deleteFolder's enumeration from a
\* folder on it never ends.
C29_Witness ==
    \E f \in folders :
        /\ OwnAncestor(folders, f.folder_id)
        /\ GetSubfolderIds(folders, f.folder_id,
                           Cardinality(folders)).diverges

\* C30: whatever a step removes from the tree under UPLOAD_DIR is the blob
\* a deleteFile call is deleting or a directory between that blob and
\* UPLOAD_DIR that has no entry when it is removed; UPLOAD_DIR itself is
\* never removed.
C30_CleanupRemovesOnlyEmptyChain ==
    [][\A e \in disk.entries \ disk'.entries :
           /\ e # UploadDir
           /\ \E c \in Conns :
                  /\ disk.calls[c].pc \in {"unlink", "rm"}
                  /\ e = disk.calls[c].path \/ IsUnder(disk.calls[c].path, e)
           /\ DirContents(disk.entries, e) = {}]_vars

\* saveFile is about to write its blob and the directory it made for it has
\* been removed by the cleanup of a deleteFile call.
C30_Witness ==
    \E c \in Conns :
        /\ disk.calls[c].pc = "writeFile"
        /\ disk.calls[c].dirPath \notin disk.entries

\* ---------------------------------------------------------------------
\* Cache invalidation primitives

KeyKinds ==
    {"file", "folder", "folder:contents", "folder:files",
     "folder:subfolders", "user:folder_tree", "user:folders",
     "user:root:contents", "user:root:files", "user:root:subfolders"}

AllKeys == {Key(kind, n) : kind \in KeyKinds, n \in 0..MaxFolderId}

PatternMatches(c, patKind, n) ==
    {k \in DOMAIN c : KindHasPrefix(k[1], patKind) /\ k[2] = n}

\* C31: with Redis reachable, deleting a key or a pattern that matches no
\* entry reports success and leaves the cache as it was; deleting a
\* present key a second time changes nothing more; and deleting a key
\* keeps every entry stored under a different key, with its value.
C31_InvalidationIdempotent ==
    /\ \A k \in AllKeys :
          LET once == CacheDeleteCall(cache, k, TRUE)
              twice == CacheDeleteCall(once.cache, k, TRUE)
          IN /\ once.ok /\ twice.ok
             /\ ~CacheHas(cache, k) => once.cache = cache
             /\ ~CacheHas(once.cache, k)
             /\ twice.cache = once.cache
             /\ \A j \in DOMAIN cache :
                   j # k => CacheHas(once.cache, j) /\ once.cache[j] = cache[j]
    /\ \A n \in 0..MaxFolderId :
          LET once == CacheDeleteByPatternCall(cache, "user:folder_tree", n,
                                               TRUE)
          IN /\ once.ok
             /\ PatternMatches(cache, "user:folder_tree", n) = {}
                    => once.cache = cache
             /\ CacheDeleteByPatternCall(once.cache, "user:folder_tree", n,
                                         TRUE).cache = once.cache

\* A cache holding two entries with the same id under different kinds, one
\* of which a delete removes, and no folder tree entry.
C31_Witness ==
    /\ \E k \in DOMAIN cache, j \in DOMAIN cache : k # j /\ k[2] = j[2]
    /\ \E k \in AllKeys : ~CacheHas(cache, k)
    /\ \A n \in 0..MaxFolderId : PatternMatches(cache, "user:folder_tree", n) = {}

\* The INSERT of uploadFile is refused: the statement fails, the unique key
\* (folder_id, name, user_id) is taken, or the folder row does not exist.
InsertRefused(u, n, f, ft) ==
    \/ ft = "write"
    \/ /\ f # Null
       /\ \E r \in files : r.user_id = u /\ r.folder_id = f /\ r.name = n
    \/ /\ f # Null
       /\ ~\E p \in folders : p.folder_id = f

\* C32: when saveFile succeeded and the INSERT of uploadFile is refused,
\* uploadFile returns the upload failure, the file rows are the ones from
\* before the call, and the blob saved for the attempt is still in the
\* blob store with the uploaded bytes, referenced by no file row.
C32_FailedInsertLeavesOrphanBlob ==
    \A u \in Users, f \in FolderIds \cup {Null}, d \in BlobBytes,
       ft \in {"none", "write"} :
        LET out == UploadFile(State, u, "a", f, d, ft, TRUE)
            filePath == BlobPath(u, nextBlobId)
        IN InsertRefused(u, "a", f, ft) =>
              /\ out.returns
              /\ out.res = Fail("uploadFile", ErrUploadFailed)
              /\ out.files = files
              /\ \E b \in out.blobs : b.path = filePath /\ b.data = d
              /\ ~\E r \in out.files : r.file_path = filePath

\* uploadFile has just failed on a duplicate name in a folder, and the blob
\* it saved is in the store with no file row pointing at it.
C32_Witness ==
    /\ last = Fail("uploadFile", ErrUploadFailed)
    /\ nextBlobId > 1
    /\ \E b \in blobs :
          /\ b.path[2] = nextBlobId - 1
          /\ ~\E r \in files : r.file_path = b.path
          /\ \E r \in files : /\ r.user_id = b.path[1]
                              /\ r.folder_id # Null
                              /\ r.name = "a"

\* ---------------------------------------------------------------------
\* Uploading into another owner's folder

\* C33: uploadFile by owner u into an existing folder f of a different
\* owner, where u has no file of that name in f yet, succeeds and adds
\* exactly one file row, owned by u, whose folder id is f.
C33_UploadIntoForeignFolderAccepted ==
    \A u \in Users, f \in FolderIds, d \in BlobBytes :
        LET out == UploadFile(State, u, "a", f, d, "none", TRUE)
        IN (/\ \E p \in folders : p.folder_id = f /\ p.user_id # u
            /\ ~\E r \in files :
                  r.user_id = u /\ r.folder_id = f /\ r.name = "a")
           => /\ out.res = Ok("uploadFile")
              /\ files \subseteq out.files
              /\ \E r \in out.files \ files :
                    /\ out.files \ files = {r}
                    /\ r.file_id = nextFileId
                    /\ r.user_id = u
                    /\ r.folder_id = f

\* A successful upload has stored a file row whose owner differs from the
\* owner of the folder it is filed under.
C33_Witness ==
    /\ last = Ok("uploadFile")
    /\ \E r \in files, p \in folders :
          /\ r.file_id = nextFileId - 1
          /\ r.folder_id = p.folder_id
          /\ r.user_id # p.user_id

\* ---------------------------------------------------------------------
\* The connection pool

\* The frames of all requests that hold a connection.
Holding ==
    {<<r, i>> \in Reqs \X (1..(MaxNested + 1)) :
        /\ i <= Len(pool.calls[r])
        /\ pool.calls[r][i].pc \in {"try", "finally"}}

InFlight == {r \in Reqs : pool.calls[r] # <<>>}

\* C34: the connections checked out of the pool are those of the handlers
\* between their getConnection and their release, one each; when no
\* request is in flight none is checked out.
C34_ConnectionsReleased ==
    /\ pool.inUse = Cardinality(Holding)
    /\ InFlight = {} => pool.inUse = 0

\* A deleteFolder over two file rows is the only request in flight; its
\* first deleteFile has returned and released, and the one connection
\* checked out is deleteFolder's own.
C34_Witness ==
    /\ \E r \in Reqs :
          /\ InFlight = {r}
          /\ pool.calls[r] = <<[op |-> "deleteFolder", pc |-> "try",
                                todo |-> <<"deleteFile">>]>>
    /\ pool.inUse = 1

\* Every request in flight waits in getConnection while the pool has no
\* connection left to hand out.
AllBlocked ==
    /\ InFlight # {}
    /\ pool.inUse = ConnectionLimit
    /\ \A r \in InFlight : Top(pool.calls[r]).pc = "getConnection"

\* C35: the requests never all wait for a connection at once with the pool
\* exhausted; some request in flight can always take a step.
C35_NoPoolDeadlock == ~AllBlocked

\* As many deleteFolder calls as the pool has connections each hold one
\* and wait for the connection of their first deleteFile.
C35_Witness ==
    /\ AllBlocked
    /\ \A r \in InFlight :
          /\ Len(pool.calls[r]) = 2
          /\ pool.calls[r][1].op = "deleteFolder"
          /\ pool.calls[r][2].op = "deleteFile"

\* ---------------------------------------------------------------------
\* Owners along the parent relation

\* C36: every folder row with a parent has a parent row, and that row has
\* the folder's owner.
C36_ParentHasSameOwner ==
    \A f \in folders :
        f.parent_folder_id # Null =>
            /\ \E p \in folders : p.folder_id = f.parent_folder_id
            /\ \A p \in folders :
                  p.folder_id = f.parent_folder_id => p.user_id = f.user_id

\* Two owners have folders, and a moveFolder has just put one folder under
\* another folder.
C36_Witness ==
    /\ last = Ok("moveFolder")
    /\ \E f \in folders, g \in folders :
          /\ f.parent_folder_id # Null
          /\ g.user_id # f.user_id

\* ---------------------------------------------------------------------
\* Referential integrity of the committed rows

\* C37: in the committed rows, every folder's parent and every file's
\* folder is a folder row that exists.
C37_CommittedRowsReferToFolders ==
    /\ \A f \in folders :
          f.parent_folder_id # Null =>
              \E p \in folders : p.folder_id = f.parent_folder_id
    /\ \A x \in files :
          x.folder_id # Null => \E p \in folders : p.folder_id = x.folder_id

\* A deleteFolder has committed after an upload or a createFolder under the
\* folder it deleted was turned away or removed with it: the folder is
\* gone, and the other connection reports the call that aimed below it.
C37_Witness ==
    \E c \in Conns, o \in Conns :
        /\ c # o
        /\ reports[c].op = "deleteFolder"
        /\ reports[c].success
        /\ reports[c].overlaps > 0
        /\ reports[o].op \in {"uploadFile", "createFolder"}
        /\ reports[o].parentId = reports[c].folderId
        /\ reports[o].overlaps > 0
        /\ ~\E p \in folders : p.folder_id = reports[c].folderId

\* ---------------------------------------------------------------------
\* Moving a folder to the parent it has

\* C38: moveFolder(owner, F, D) with D the parent F already has (the root
\* for a root-level folder) returns "A folder with this name already
\* exists in the destination" and leaves rows, counters, blobs and cache
\* as they were.
C38_MoveToSameParentConflicts ==
    \A u \in Users, F \in FolderIds :
        \A f \in FolderOfUser(folders, F, u) :
            LET out == MoveFolder(State, u, F, f.parent_folder_id, "none")
            IN /\ out.returns
               /\ out.res = Fail("moveFolder", ErrMoveExists)
               /\ out = [State EXCEPT !.res = out.res]

\* moveFolder answered that the name exists in the destination in a store
\* of a single folder row.
C38_Witness ==
    /\ last = Fail("moveFolder", ErrMoveExists)
    /\ Cardinality(folders) = 1

\* ---------------------------------------------------------------------
\* Details of deleted folders and files

\* C39: after a successful deleteFolder(owner, F), getFolderDetails of F and
\* of every folder that was below F answers "Folder not found", and
\* getFileDetails of every file that was in a folder below F answers "File
\* not found", whatever the cache held before the call.
C39_DeletedDetailsNotFound ==
    \A u \in CacheUsers, F \in FolderIds :
        LET out == DeleteFolder(State, u, F, "none", TRUE)
            sub == SubtreeIds(folders, F)
        IN (out.returns /\ out.res.success) =>
              /\ \A D \in sub :
                    GetFolderDetails(out.cache, out.folders, u, D).res
                        = Fail("getFolderDetails", ErrFolderNotFound)
              /\ \A x \in files :
                    x.folder_id \in sub \ {F} =>
                        GetFileDetails(out.cache, out.files, u, x.file_id).res
                            = Fail("getFileDetails", ErrFileNotFound)

\* deleteFolder has returned success, and the cache still holds the details
\* of a folder whose row is gone.
C39_Witness ==
    /\ last.op = "deleteFolder"
    /\ last.success
    /\ \E D \in FolderIds :
          /\ CacheHas(cache, Key("folder", D))
          /\ ~\E f \in folders : f.folder_id = D

\* ---------------------------------------------------------------------
\* Failure results and persisted rows

\* C40: whenever createFolder or uploadFile returns a failure, whichever
\* step failed (the re-read after the commit included), the folder rows
\* and the file rows are those from before the call.
C40_FailureLeavesNoRow ==
    /\ \A u \in Users, n \in Names, p \in FolderIds \cup {Null},
          ft \in CreateFaults :
          LET out == CreateFolder(State, u, n, p, ft)
          IN (out.returns /\ ~out.res.success)
                 => out.folders = folders /\ out.files = files
    /\ \A u \in Users, n \in FileNames, f \in FolderIds \cup {Null},
          ft \in UploadFaults, diskOk \in BOOLEAN :
          LET out == UploadFile(State, u, n, f, "d", ft, diskOk)
          IN (out.returns /\ ~out.res.success)
                 => out.folders = folders /\ out.files = files

\* createFolder has returned "Failed to create folder", and the row with
\* the id it was given is in the folders table.
C40_Witness ==
    /\ last = Fail("createFolder", ErrCreateFailed)
    /\ \E f \in folders : f.folder_id = nextFolderId - 1

====
